---------------------------- MODULE Spec2Model ----------------------------
(***************************************************************************)
(* A model of affine/__init__.py: the weight engine (get_weights), the     *)
(* shard cache and result stream (_cache_shard, prefetch, dataset), the    *)
(* query dispatcher (get_http_semaphore, query), sink and the shard index, *)
(* run, shard discovery, challenge ids, signatures, the control loops      *)
(* with their watchdog, concurrent fetches of one shard, and prune.        *)
(*                                                                         *)
(* Each component has its own specification over the shared variables:     *)
(*   SpecWeights    get_weights over one stream                            *)
(*   SpecReplay     two validators running get_weights over one stream     *)
(*   SpecValidate   get_weights and the validate iteration around it       *)
(*   SpecShards     prefetch / dataset over the remote store and the cache *)
(*   SpecStreams    dataset streams, consumed to their end or dropped      *)
(*   SpecQuery      concurrent query() calls on one or more event loops    *)
(*   SpecQueryFair  the same, each pair queried once, with fairness        *)
(*   SpecSink       concurrent sink() calls and _update_index              *)
(*   SpecRun        run() and its proc tasks                               *)
(*   SpecKeys       _shard_keys over an index                              *)
(*   SpecIds        Challenge.set_challenge_id                             *)
(*   SpecSign       Result.sign / Result.verify                            *)
(*   SpecLoop       runner / validate next to the watchdog                 *)
(*   SpecCoherence  _cache_shard coroutines for one key, with crashes      *)
(*   SpecPrune      prune, then _shard_keys at the same block              *)
(***************************************************************************)
EXTENDS Integers, Sequences, FiniteSets, TLC

(***************************************************************************)
(* Generic helpers                                                         *)
(***************************************************************************)
Range(s) == {s[i] : i \in 1..Len(s)}

Abs(n) == IF n < 0 THEN -n ELSE n

RECURSIVE GCD(_, _)
GCD(a, b) == IF b = 0 THEN a ELSE GCD(b, a % b)

(***************************************************************************)
(*                              WEIGHT ENGINE                              *)
(***************************************************************************)

\* Bound of the weight-engine model: the Results one stream yields.
MaxResults == 3

\* Two independent validator processes run get_weights over the same stream.
Validators == {1, 2}

\* meta.hotkeys: the registered identity list; the position is the uid.
Hotkeys == <<"A", "B", "C">>
HotkeySet == Range(Hotkeys)
\* "X" is a hotkey that is not registered on the subnet.

\* ENVS (two of the three registered environments are modelled).
ENVS == <<"SAT", "ABD">>
EnvSet == Range(ENVS)

\* Evaluation.score values that occur in the modelled streams.
Scores == {0, 1}

\* Model ids are character sequences so that split('/',1)[1].lower() and
\* startswith('affine') are computed as the code computes them.
ModelAffineUpper == <<"o", "/", "A", "f", "f", "i", "n", "e", "1">>
ModelAffineLower == <<"o", "/", "a", "f", "f", "i", "n", "e", "2">>
ModelOther       == <<"o", "/", "l", "l", "a", "m", "a">>
ModelNoSlash     == <<"a", "f", "f", "i", "n", "e">>

\* str.lower() on one character.
LowerChar(ch) ==
    CASE ch = "A" -> "a"
      [] ch = "F" -> "f"
      [] ch = "I" -> "i"
      [] ch = "N" -> "n"
      [] ch = "E" -> "e"
      [] OTHER    -> ch

Lower(s) == [i \in 1..Len(s) |-> LowerChar(s[i])]

HasSlash(s) == \E i \in 1..Len(s) : s[i] = "/"

\* model.split('/', 1): the parts around the first '/', or the whole string.
Split1(s) ==
    IF HasSlash(s)
    THEN LET i == CHOOSE k \in 1..Len(s) :
                     s[k] = "/" /\ \A j \in 1..(k - 1) : s[j] # "/"
         IN  <<SubSeq(s, 1, i - 1), SubSeq(s, i + 1, Len(s))>>
    ELSE <<s>>

StartsWith(s, p) == Len(s) >= Len(p) /\ SubSeq(s, 1, Len(p)) = p

AffinePrefix == <<"a", "f", "f", "i", "n", "e">>

\* c.miner.model.split('/',1)[1] raises IndexError when there is no '/'.
NameRaises(c) == Len(Split1(c.miner.model)) < 2

\* name = c.miner.model.split('/',1)[1].lower()
NameOf(c) == Lower(Split1(c.miner.model)[2])

\* A Result's Miner: hotkey and the committed (model, revision, block).
Miner(h, m, r, b) == [hotkey |-> h, model |-> m, revision |-> r, block |-> b]

\* The Miners that occur in the modelled streams.  A recommits at a later
\* block; B recommits another revision, or another model; the last four are
\* an unregistered hotkey, a model outside the naming convention and model
\* ids without a '/'.
GoodMiners ==
    { Miner("A", ModelAffineUpper, "r1", 1),
      Miner("A", ModelAffineUpper, "r1", 2),
      Miner("B", ModelAffineUpper, "r1", 1),
      Miner("B", ModelAffineUpper, "r2", 1),
      Miner("B", ModelAffineLower, "r1", 1) }

\* The verified Results a stream can carry (miner, challenge.env, evaluation.score).
Results ==
    [miner : GoodMiners, env : EnvSet, score : Scores]
    \cup { [miner |-> Miner("X", ModelAffineUpper, "r1", 1), env |-> "SAT", score |-> 1],
           [miner |-> Miner("A", ModelOther, "r1", 1), env |-> "SAT", score |-> 1],
           [miner |-> Miner("A", ModelNoSlash, "r1", 1), env |-> "SAT", score |-> 1],
           [miner |-> Miner("X", ModelNoSlash, "r1", 1), env |-> "ABD", score |-> 1] }

NoPrev == [model |-> <<>>, revision |-> "", block |-> 0, hotkey |-> ""]
NoOut  == [status |-> "none"]

\* The validate iteration has not come to retry_set_weights, has called it
\* with uid, or has gone to its except clause.
NotSet == [state |-> "none", uid |-> -1]
SetTo(uid) == [state |-> "set", uid |-> uid]
NoneSet == [state |-> "failed", uid |-> -1]

VARIABLES
    active,     \* the validator processes that run get_weights
    inbox,      \* inbox[v]: Results the stream has yielded to v, not yet consumed
    yielded,    \* number of Results the stream has yielded
    closed,     \* the stream is exhausted
    wpc,        \* wpc[v]: "run", "done" or "error" (get_weights raised)
    cnt,        \* cnt[v][hk][env]
    succ,       \* succ[v][hk][env]
    prev,       \* prev[v][hk]: miner of the last counted Result, or NoPrev
    prevOrder,  \* prevOrder[v]: the keys of the dict prev in insertion order
    branch,     \* branch[v]: the path the last loop iteration took in v
    hashSeed,   \* hashSeed[v]: the process's string-hash seed (set iteration order)
    out,        \* out[v]: what get_weights computed after the loop
    wset        \* wset[v]: what the validate iteration did after get_weights

wvars == <<active, inbox, yielded, closed, wpc, cnt, succ, prev, prevOrder, branch, hashSeed, out, wset>>


(***************************************************************************)
(*                      SHARD CACHE AND RESULT STREAM                      *)
(***************************************************************************)

\* Bounds of the shard model.
NumShards       == 2   \* shard keys in the index that fall in the tail window
MaxConc         == 2   \* largest max_concurrency a caller passes
MaxCalls        == 2   \* prefetch / dataset calls made one after the other
MaxRemoteWrites == 1   \* appends by other writers to the remote shards
MaxFailures     == 1   \* remote operations that fail

\* A shard key is identified by its rank in the string order of the keys.
KeyIds == 1..NumShards

\* Variant of SortKeys: the keys are left in the order of the index.
Unsorted(ks) == ks

\* keys.sort()
RECURSIVE SortKeys(_)
SortKeys(ks) ==
    IF ks = <<>> THEN <<>>
    ELSE LET m == CHOOSE x \in Range(ks) : \A y \in Range(ks) : x <= y
         IN  <<m>> \o SortKeys(SelectSeq(ks, LAMBDA x : x # m))

\* The entries of a remote shard array: a signed Result ("ok"), an entry that
\* does not decode into a Result ("undecodable"), a Result whose signature
\* does not verify ("forged"), a Result whose signature is not hex, so that
\* verify() raises ("badhex").
EntryKinds == {"ok", "undecodable", "forged", "badhex"}
Entry(k, j, kind) == [shard |-> k, idx |-> j, kind |-> kind]

\* The contents a remote shard starts with, as sequences of entry kinds.
Shapes ==
    << <<>>,
       <<"undecodable", "ok">>,
       <<"ok", "forged">>,
       <<"badhex", "ok">> >>

\* The initial stores: consecutive shards start with consecutive shapes.
ShapesFrom(r) == [k \in KeyIds |-> Shapes[((k + r) % Len(Shapes)) + 1]]

ShapeAssignments == { ShapesFrom(r) : r \in 1..Len(Shapes) }

\* The index lists the keys in the order its last writer left them: the
\* index that goes with the r-th store is sorted for even r, rotated for odd r.
OrderFrom(r) ==
    IF r % 2 = 0 THEN [i \in KeyIds |-> i] ELSE [i \in KeyIds |-> (i % NumShards) + 1]

ShardOf(k, shape) == [j \in 1..Len(shape) |-> Entry(k, j, shape[j])]

\* The byte b"\n" of a cache file.
NL == [shard |-> 0, idx |-> 0, kind |-> "nl"]

\* b"\n".join(_dumps(i) for i in arr)
RECURSIVE JoinNL(_)
JoinNL(arr) ==
    IF Len(arr) <= 1 THEN arr
    ELSE <<Head(arr), NL>> \o JoinNL(Tail(arr))

\* tmp.write_bytes(b"\n".join(_dumps(i) for i in _loads(body)) + b"\n")
ToJsonl(arr) == JoinNL(arr) \o <<NL>>

\* async for l in f: yield l.rstrip(b"\n") -- the lines of the file, each
\* without its newline; a last line without a newline is a line too.
RECURSIVE FileLines(_)
FileLines(f) ==
    IF f = <<>> THEN <<>>
    ELSE IF \E i \in 1..Len(f) : f[i] = NL
    THEN LET i == CHOOSE k \in 1..Len(f) :
                     f[k] = NL /\ \A j \in 1..(k - 1) : f[j] # NL
         IN  <<SubSeq(f, 1, i - 1)>> \o FileLines(SubSeq(f, i + 1, Len(f)))
    ELSE <<f>>

\* Variant of LineOutcome: only a failure to decode is caught, an exception
\* of verify() leaves the loop.
LineOutcomeVerifyRaises(raw) ==
    IF Len(raw) # 1 THEN "skip"
    ELSE CASE raw[1].kind = "ok"     -> "yield"
           [] raw[1].kind = "badhex" -> "raise"
           [] OTHER                  -> "skip"

\* What the body of the loop does with one raw line:
\*   try: r = Result.model_validate(_loads(raw)); if r.verify(): yield r
\*   except Exception: pass
LineOutcome(raw) ==
    IF Len(raw) # 1 THEN "skip"                          \* _loads raises
    ELSE CASE raw[1].kind = "ok"          -> "yield"
           [] raw[1].kind = "undecodable" -> "skip"      \* model_validate raises
           [] raw[1].kind = "forged"      -> "skip"      \* verify() is False
           [] raw[1].kind = "badhex"      -> "skip"      \* verify() raises
           [] OTHER                       -> "skip"

NoStamp == -1

VARIABLES
    indexOrder, \* the keys of the index object, in its order
    remote,     \* remote[k] = [body, lm]: the shard array and its LastModified
    cached,     \* cached[k]: the cache file <name>.jsonl exists
    file,       \* file[k]: the bytes of the cache file
    stamp,      \* stamp[k]: the text of <name>.modified, or NoStamp
    mode,       \* "idle", "prefetch" or "dataset": the call in progress
    phase,      \* where the call is: "idle", "gather", "await", "iter", "done", "error", "closed"
    limit,      \* max_concurrency of the call
    keys,       \* keys: what _shard_keys returned to the call
    sem,        \* the value of the call's asyncio.Semaphore
    task,       \* task[k]: "none", "wait", "head", "get", "done", "failed"
    ops,        \* ops[k]: the remote operations the task of this call has issued
    completion, \* the keys in the order their tasks completed in this call
    di,         \* dataset: i + 1, the position in keys of the shard in progress
    dnxt,       \* dataset: nxt
    dlines,     \* dataset: the lines of the open cache file not yet read
    ystream,    \* dataset: the Results yielded so far
    calls,      \* calls made
    writes,     \* remote appends made
    failures,   \* remote operations failed
    closes      \* dataset streams the consumer stopped iterating before their end

svars == <<indexOrder, remote, cached, file, stamp, mode, phase, limit, keys, sem,
           task, ops, completion, di, dnxt, dlines, ystream, calls, writes, failures, closes>>

(***************************************************************************)
(*                            QUERY DISPATCHER                             *)
(***************************************************************************)

\* Bounds of the query model.
HttpConcurrency == 1   \* AFFINE_HTTP_CONCURRENCY (16 when unset)
NumPairs        == 2   \* (challenge, miner) pairs whose query() calls overlap
MaxRetries      == 1   \* largest retries a caller passes
MaxLoops        == 2   \* event loops run one after the other in the process

Pairs == 1..NumPairs

\* Variant of TERMINAL: only 404 short-circuits.
TerminalNarrow == {404}

TERMINAL == {400, 404, 410}

\* What one HTTP attempt can end with: a status with a well-formed body, a
\* 200 whose body is not the expected JSON, a connection error or timeout.
Outcomes ==
    { [status |-> 200, fault |-> "none"],
      [status |-> 200, fault |-> "body"],
      [status |-> 400, fault |-> "none"],
      [status |-> 404, fault |-> "none"],
      [status |-> 410, fault |-> "none"],
      [status |-> 500, fault |-> "none"],
      [status |-> 0,   fault |-> "network"] }

\* r.raise_for_status() raises for a status of 400 or more.
RaisesForStatus(st) == st >= 400

\* How the body of "async with http_sem, sess.post(...) as r" ends:
\* "terminal" and "ok" return a Response, "raise" goes to the except clause.
AttemptResult(o) ==
    IF o.fault = "network" THEN "raise"
    ELSE IF o.status \in TERMINAL THEN "terminal"
    ELSE IF RaisesForStatus(o.status) THEN "raise"
    ELSE IF o.fault = "body" THEN "raise"
    ELSE "ok"

NoResponse == [success |-> FALSE, attempts |-> 0, error |-> "unset"]

\* R(resp, at, err, ok)
Response(at, err, ok) == [success |-> ok, attempts |-> at, error |-> err]

VARIABLES
    loop,       \* the running event loop
    httpSem,    \* _HTTP_SEM: 0 for None, else the semaphore object
    sems,       \* sems[s] = [loop, value]: the semaphore objects created so far
    qpc,        \* qpc[p]: "idle", "attempt", "waiting", "inflight", "backoff", "returned"
    qattempt,   \* qattempt[p]: attempt
    qsent,      \* qsent[p]: the HTTP calls this call of query has issued
    qretries,   \* qretries[p]: retries
    qgate,      \* qgate[p]: the semaphore object the attempt uses
    qresp       \* qresp[p]: the Response returned

qvars == <<loop, httpSem, sems, qpc, qattempt, qsent, qretries, qgate, qresp>>

(***************************************************************************)
(*                         SINK AND THE SHARD INDEX                        *)
(***************************************************************************)

\* Bounds of the sink model.
NumSlots == 2   \* sink invocations that can be in progress at once
MaxSinks == 3   \* sink invocations made

\* WINDOW = int(os.getenv("AFFINE_WINDOW", 20))
WINDOW == 20

Slots == 1..NumSlots

\* wallet.hotkey.ss58_address of the signing identities.
Wallets == {"V1", "V2"}

\* The block argument of sink: None, or a block number.
NoBlock == -1
BlockArgs == {NoBlock, 0, 20}

\* What sub.get_current_block() answers.
ChainBlocks == {25}

\* The results argument of sink, as the number of Results in the list.
ResultCounts == {0, 2}

\* def _w(b): return (b // WINDOW) * WINDOW
Window(b) == (b \div WINDOW) * WINDOW

WindowStarts == {Window(b) : b \in (BlockArgs \ {NoBlock}) \cup ChainBlocks}

\* Variant of ShardKey: the key names the window only.
ShardKeyShared(w, hk) == [window |-> w, hotkey |-> "V1"]

\* f"{RESULT_PREFIX}{_w(block):09d}-{wallet.hotkey.ss58_address}.json"
ShardKey(w, hk) == [window |-> w, hotkey |-> hk]

ShardKeySet == {ShardKey(w, hk) : w \in WindowStarts, hk \in Wallets}

\* block = block or await sub.get_current_block(): None and 0 are falsy.
BlockUsed(b, cur) == IF b = NoBlock \/ b = 0 THEN cur ELSE b

\* The order of the key strings: the zero-padded window, then the hotkey.
HotkeyRank(hk) == IF hk = "V1" THEN 1 ELSE 2

KeyBefore(a, b) ==
    \/ a.window < b.window
    \/ a.window = b.window /\ HotkeyRank(a.hotkey) < HotkeyRank(b.hotkey)

\* sorted(idx)
RECURSIVE SortedKeys(_)
SortedKeys(S) ==
    IF S = {} THEN <<>>
    ELSE LET m == CHOOSE x \in S : \A y \in S \ {x} : KeyBefore(x, y)
         IN  <<m>> \o SortedKeys(S \ {m})

\* An object of the bucket that does not exist (NoSuchKey), or its content.
Absent == [exists |-> FALSE, body |-> <<>>]
Object(b) == [exists |-> TRUE, body |-> b]

\* r.sign(wallet) or r.model_dump(mode="json"): the n signed Results of the
\* c-th sink invocation, in input order.
Payload(hk, c, n) == [j \in 1..n |-> [signer |-> hk, call |-> c, pos |-> j]]

NoKey == [window |-> -1, hotkey |-> "none"]

VARIABLES
    chain,      \* the chain's current block
    bucket,     \* bucket[k]: the shard object at key k
    index,      \* the index object: the list of keys
    sinks,      \* sink invocations made
    returned,   \* sink invocations that have returned (without an exception)
    ipc,        \* ipc[i]: "idle" (no invocation in slot i), "get", "put", "idxget", "idxput"
    ikey,       \* ikey[i]: key
    ipayload,   \* ipayload[i]: payload
    imerged,    \* imerged[i]: merged
    iidx,       \* iidx[i]: idx of _update_index
    ilost,      \* ilost[i]: the keys that had a shard, no index entry and no
                \* registration in progress when the invocation began
    isunk,      \* isunk[k]: the invocations whose put_object of shard k completed
    iraced      \* iraced[k]: an invocation for k began while another was in progress

ivars == <<chain, bucket, index, sinks, returned, ipc, ikey, ipayload, imerged, iidx, ilost, isunk, iraced>>

(***************************************************************************)
(*                                  RUN                                    *)
(***************************************************************************)

\* Bound of the run model.
NumChallenges == 2   \* longest list of challenges passed to run

\* The uids of the miners passed to run.
Uids == {1, 2}

\* mmap.values(): the miners in the order of the dict.
MinerOrders == { <<1, 2>>, <<2, 1>> }

\* What evaluate can return as the score.
EvalScores == {0, 1}

NoEvaluation == [score |-> 0, error |-> FALSE, set |-> FALSE]

\* The Evaluation an Environment returns.
Scored(s) == [score |-> s, error |-> FALSE, set |-> TRUE]

\* Evaluation(env=chal.env, score=0.0, extra={"error": str(e), "evaluation_failed": True})
Substituted == [score |-> 0, error |-> TRUE, set |-> TRUE]

\* The task of one pair: proc(miner, chal).
Task(m, c) == [miner |-> m, chal |-> c, pc |-> "query", ev |-> NoEvaluation]

\* Result(miner=miner, challenge=chal, response=resp, evaluation=ev)
ResultOf(t) == [miner |-> t.miner, chal |-> t.chal, ev |-> t.ev]

\* Variant of TakesPart: every miner gets a task.
TakesPartAll(hasModel, m) == TRUE

\* if m.model
TakesPart(hasModel, m) == hasModel[m]

\* [proc(m, chal) for m in mmap.values() if m.model for chal in challenges]
RECURSIVE TasksFor(_, _, _)
TasksFor(order, hasModel, n) ==
    IF order = <<>> THEN <<>>
    ELSE (IF TakesPart(hasModel, Head(order))
          THEN [c \in 1..n |-> Task(Head(order), c)]
          ELSE <<>>) \o TasksFor(Tail(order), hasModel, n)

VARIABLES
    rphase,     \* "idle", "gather", "returned", "raised"
    rorder,     \* the miners of the call, in the order of mmap
    rmodel,     \* rmodel[m]: miner m has a model
    rn,         \* the number of challenges of the call
    rtasks,     \* tasks
    rresponse   \* response, the list run returns

rvars == <<rphase, rorder, rmodel, rn, rtasks, rresponse>>

(***************************************************************************)
(*                           SHARD DISCOVERY                               *)
(***************************************************************************)

\* Bound of the shard discovery model.
MaxIndex == 2   \* longest index list

\* The characters of the window part of a key.  "sup2" is the superscript
\* two, a digit for str.isdigit() that int() does not parse.
DecimalChars == {"0", "2", "4", "6"}
DigitChars == DecimalChars \cup {"sup2"}

\* Path(k).name.split("-", 1)[0] of the keys of an index: zero-padded and
\* unpadded windows, names that are no number, the empty name.
Prefixes ==
    { <<"0", "0">>, <<"2", "0">>, <<"4", "0">>, <<"6", "0">>, <<"0", "2", "0">>,
      <<"a">>, <<"2", "a">>, <<>>, <<"sup2">> }

\* The keys of an index: the window part and the rest of the name.
IndexKey(h, hk) == [prefix |-> h, hotkey |-> hk]

IndexKeySet == { IndexKey(h, hk) : h \in Prefixes, hk \in Wallets }

\* The lists an index can hold, up to MaxIndex keys.
RECURSIVE ListsUpTo(_, _)
ListsUpTo(S, n) ==
    IF n = 0 THEN { <<>> }
    ELSE LET shorter == ListsUpTo(S, n - 1)
         IN  shorter \cup { Append(l, x) : l \in { m \in shorter : Len(m) = n - 1 }, x \in S }

\* sub.get_current_block() and the tail argument.
CurrentBlocks == {25, 45}
Tails == {0, 20, 30}

\* str.isdigit(): not empty and every character is a digit.
IsDigit(h) == h # <<>> /\ \A i \in 1..Len(h) : h[i] \in DigitChars

\* int(c) of one decimal character.
CharValue(c) == CASE c = "0" -> 0 [] c = "2" -> 2 [] c = "4" -> 4 [] c = "6" -> 6

\* int(h) raises ValueError unless every character is decimal.
IntRaises(h) == h = <<>> \/ \E i \in 1..Len(h) : h[i] \notin DecimalChars

\* int(h) of a decimal string.
RECURSIVE IntOf(_)
IntOf(h) == IF h = <<>> THEN 0 ELSE 10 * IntOf(SubSeq(h, 1, Len(h) - 1)) + CharValue(h[Len(h)])

\* {w for w in range(_w(cur - tail), _w(cur) + WINDOW, WINDOW)}
Need(cur, tail) ==
    { w \in Window(cur - tail)..Window(cur) : (w - Window(cur - tail)) % WINDOW = 0 }

\* The order of the characters (their code points; "-" is 45), and of the
\* strings (keys.sort()).
CharRank(c) ==
    CASE c = "0" -> 48 [] c = "2" -> 50 [] c = "4" -> 52 [] c = "6" -> 54
      [] c = "a" -> 97 [] c = "sup2" -> 178

RECURSIVE StrBefore(_, _)
StrBefore(a, b) ==
    IF a = <<>> THEN b # <<>>
    ELSE IF b = <<>> THEN FALSE
    ELSE IF a[1] # b[1] THEN CharRank(a[1]) < CharRank(b[1])
    ELSE StrBefore(Tail(a), Tail(b))

\* k sorts before l: the window part, the "-", the rest of the name.
IndexKeyBefore(k, l) ==
    IF k.prefix = l.prefix THEN HotkeyRank(k.hotkey) < HotkeyRank(l.hotkey)
    ELSE LET n == IF Len(k.prefix) < Len(l.prefix) THEN Len(k.prefix) ELSE Len(l.prefix)
         IN  IF SubSeq(k.prefix, 1, n) = SubSeq(l.prefix, 1, n)
             THEN \* one is a prefix of the other: "-" against the next character
                  IF Len(k.prefix) < Len(l.prefix)
                  THEN 45 < CharRank(l.prefix[n + 1])
                  ELSE CharRank(k.prefix[n + 1]) < 45
             ELSE StrBefore(k.prefix, l.prefix)

\* Variant of SortIndexKeys: the keys stay in the order of the index.
SortIndexKeysNot(ks) == ks

\* keys.sort()
RECURSIVE SortIndexKeys(_)
SortIndexKeys(ks) ==
    IF ks = <<>> THEN <<>>
    ELSE LET i == CHOOSE i \in 1..Len(ks) :
                     \A j \in 1..Len(ks) : ~IndexKeyBefore(ks[j], ks[i])
         IN  <<ks[i]>> \o SortIndexKeys(SubSeq(ks, 1, i - 1) \o SubSeq(ks, i + 1, Len(ks)))

\* What evaluating the filter of the comprehension does for one key.
FilterRaises(k) == IsDigit(k.prefix) /\ IntRaises(k.prefix)

\* (h := ...).isdigit() and int(h) in need
Kept(k, need) == IsDigit(k.prefix) /\ ~IntRaises(k.prefix) /\ IntOf(k.prefix) \in need

NoKeys == [raised |-> FALSE, keys |-> <<>>]

\* _shard_keys(tail) with the index idx and the current block cur.
ShardKeysFor(idx, cur, tail) ==
    IF \E i \in 1..Len(idx) : FilterRaises(idx[i])
    THEN [raised |-> TRUE, keys |-> <<>>]
    ELSE [raised |-> FALSE,
          keys |-> SortIndexKeys(SelectSeq(idx, LAMBDA k : Kept(k, Need(cur, tail))))]

VARIABLES
    kidx,       \* the list the index holds
    kcur,       \* the chain's current block
    ktail,      \* tail
    kpc,        \* "call" before _shard_keys, "done" after
    kout        \* what _shard_keys did

kvars == <<kidx, kcur, ktail, kpc, kout>>

(***************************************************************************)
(*                 THE CONTROL LOOPS AND THE WATCHDOG                      *)
(***************************************************************************)

\* Bound of the loop model.
MaxTime == 8   \* the clock stops here

\* watchdog(timeout = 60 * 10), counted in units of 200 seconds.
WatchdogTimeout == 3

\* await asyncio.sleep(10) after a failed iteration: at most one unit.
Cooldown == 1

\* The two commands that run a loop next to the watchdog.
Modes == {"runner", "validate"}

\* subtensor = None, SUBTENSOR = None
NoConn == 0

\* Variant of Stalled: the process exits as soon as the age reaches the timeout.
StalledEarly(elapsed) == elapsed >= WatchdogTimeout

\* if elapsed > timeout
Stalled(elapsed) == elapsed > WatchdogTimeout

VARIABLES
    lmode,      \* the command that runs
    now,        \* time.monotonic()
    heartbeat,  \* HEARTBEAT
    wdnext,     \* when the sleep of the watchdog ends
    alive,      \* FALSE after os._exit(1)
    lpc,        \* where the loop is
    lsub,       \* subtensor, the local variable of _run
    gsub,       \* SUBTENSOR, the global of get_subtensor
    ginit,      \* SUBTENSOR.initialize() has returned
    lfailed,    \* the connection in use when the last iteration failed
    lwake       \* when the sleep after a failed iteration ends

lvars == <<lmode, now, heartbeat, wdnext, alive, lpc, lsub, gsub, ginit, lfailed, lwake>>


(***************************************************************************)
(*      _cache_shard: CONCURRENT FETCHES OF ONE KEY, AND A CRASH           *)
(***************************************************************************)

\* Bound of the coherence model: the overwrites of the remote shard.
MaxOverwrites == 2

\* The _cache_shard coroutines that run for the one key, in one process.
Fetchers == {1, 2}

\* The remote shard after n overwrites: each writer's sink stored the array
\* with one more Result.
BodyAt(n) == [j \in 1..(n + 1) |-> Entry(1, j, "ok")]

\* A local file: absent, or its bytes.
NoFile == [exists |-> FALSE, bytes |-> <<>>]
FileOf(b) == [exists |-> TRUE, bytes |-> b]

NoSnap == [body |-> <<>>, lm |-> NoStamp]

VARIABLES
    hremote,    \* [body, lm]: the remote shard array and its LastModified
    hfile,      \* out: <name>.jsonl
    hstamp,     \* stamp: the text of <name>.modified, or NoStamp
    htmp,       \* tmp: <name>.tmp
    hpc,        \* hpc[f]: "idle", "head", "ret", "get", "write"
    hsnap,      \* hsnap[f]: body and lm of the get_object answer f holds
    hover,      \* overwrites made
    hcrashed    \* the process died between os.replace and stamp.write_text

hvars == <<hremote, hfile, hstamp, htmp, hpc, hsnap, hover, hcrashed>>

(***************************************************************************)
(*                       PRUNING OF THE LOCAL CACHE                        *)
(***************************************************************************)
\* The cache file <name>.jsonl of a shard is named after its key: f.stem
\* .split("-", 1)[0] is the window part of the key.
NumericKeys == {k \in IndexKeySet : k.prefix # <<>> /\ \A i \in 1..Len(k.prefix) : k.prefix[i] \in DecimalChars}

\* Variant of Evicts: the file is compared with the start of the window of
\* cur - tail.
EvictsBeforeWindow(k, cur, tail) ==
    IsDigit(k.prefix) /\ IntOf(k.prefix) < Window(cur - tail)

\* b.isdigit() and int(b) < cur - tail
Evicts(k, cur, tail) ==
    IsDigit(k.prefix) /\ IntOf(k.prefix) < cur - tail

VARIABLES
    pidx,       \* the list the index holds
    pcur,       \* the chain's current block
    ptail,      \* tail
    pcache,     \* the keys whose cache file exists
    pdeleted,   \* the keys whose cache file prune has unlinked
    premote,    \* the keys of the shard objects of the bucket
    ppc,        \* "call" before prune, "pruned" after it, "done" after _shard_keys
    pkeys       \* what _shard_keys did

pvars == <<pidx, pcur, ptail, pcache, pdeleted, premote, ppc, pkeys>>
(***************************************************************************)
(*                       CHALLENGE IDS AND SIGNATURES                      *)
(***************************************************************************)

\* Bound of the challenge model.
MaxExtra == 2   \* most keys in the extra map of a challenge

EnvNames == {"SAT", "ABD"}

\* env is passed as its name or as the environment object.
EnvForms == {"str", "obj"}

Prompts == {"p1", "p2"}

ExtraKeys == {"a", "b"}
ExtraValues == {0, 1}

\* A dict in insertion order: a list of (key, value) items with distinct keys.
IsDict(l) == \A i \in 1..Len(l) : \A j \in 1..Len(l) : i # j => l[i][1] # l[j][1]

Dicts == { l \in ListsUpTo(ExtraKeys \X ExtraValues, MaxExtra) : IsDict(l) }

\* Two dicts are equal: the same items, whatever the order of insertion.
SameDict(l, m) == Range(l) = Range(m)

KeyRank(k) == CASE k = "a" -> 1 [] k = "b" -> 2

\* Variant of SortItems: json.dumps without sort_keys.
SortItemsNot(l) == l

\* json.dumps(..., sort_keys=True): the items of a dict in the order of the keys.
RECURSIVE SortItems(_)
SortItems(l) ==
    IF l = <<>> THEN <<>>
    ELSE LET i == CHOOSE i \in 1..Len(l) : \A j \in 1..Len(l) : KeyRank(l[i][1]) <= KeyRank(l[j][1])
         IN  <<l[i]>> \o SortItems(SubSeq(l, 1, i - 1) \o SubSeq(l, i + 1, Len(l)))

\* if not isinstance(env, str): env = env.name
EnvName(env) == env.name

\* canonical = json.dumps({"env": env, "prompt": prompt, "extra": extra},
\*                        sort_keys=True, separators=(",", ":"))
Canonical(env, prompt, extra) ==
    <<"env", EnvName(env), "extra", SortItems(extra), "prompt", prompt>>

\* hashlib.sha256(canonical.encode()).hexdigest(): equal for equal strings.
Sha256(s) == [sha256 |-> s]

NoId == [sha256 |-> <<>>]

\* The Challenge is not constructed yet.
Unset == [sha256 |-> <<"unset">>]

\* An id that came with the input.
GivenId == [sha256 |-> <<"given">>]

\* Challenge.set_challenge_id(values): the challenge_id after validation.
SetChallengeId(env, prompt, extra, cid) ==
    IF cid = NoId THEN Sha256(Canonical(env, prompt, extra)) ELSE cid

VARIABLES
    cargs,      \* cargs[n]: the values the n-th Challenge is constructed from
    cid         \* cid[n]: its challenge_id once constructed, Unset before

cvars == <<cargs, cid>>

\* The prompts of signed Results.  textwrap.shorten(t, width=80,
\* placeholder="...") keeps a prompt that fits and cuts a long one: two long
\* prompts with the same beginning are shortened to the same text.
SignedPrompts ==
    { [head |-> "h1", tail |-> "t1", long |-> FALSE],
      [head |-> "h2", tail |-> "t1", long |-> TRUE],
      [head |-> "h2", tail |-> "t2", long |-> TRUE] }

\* _truncate(t)
Truncate(p) == IF p.long THEN <<p.head, "...">> ELSE <<p.head, p.tail>>

\* str(challenge): f"<Challenge env={self.env.name!r} prompt={_truncate(self.prompt)!r}>"
Repr(ch) == <<"Challenge", ch.env, Truncate(ch.prompt)>>

\* Response, Evaluation and Miner of a Result.
Scorings == {"d1", "d2"}

\* wallet.hotkey.sign(data): the signature bytes; tweak 1 are other bytes of
\* the same length.
SignBytes(id, data) == [by |-> id, over |-> data, tweak |-> 0]

NoBytes == [by |-> "", over |-> <<>>, tweak |-> 0]

\* bytes.hex(): lower-case hexadecimal text.
Hex(b) == [bytes |-> b, text |-> "lower"]

\* The signature field of a Result that was never signed.
NoSignature == [bytes |-> NoBytes, text |-> "lower"]

\* The ways to write the text of a signature otherwise: other letter case,
\* white space between the bytes, a character that is no hexadecimal digit.
Texts == {"lower", "upper", "spaced", "nonhex"}

\* bytes.fromhex(s) raises ValueError on a character that is neither a
\* hexadecimal digit nor white space.
FromHexRaises(s) == s.text = "nonhex"

\* bytes.fromhex(s): letter case and white space make no difference.
FromHex(s) == s.bytes

\* Variant of KeypairVerify: the key of the signer is not looked at.
KeypairVerifyAnyKey(id, data, b) == b.over = data /\ b.tweak = 0

\* bt.Keypair(ss58_address=id).verify(data, signature)
KeypairVerify(id, data, b) == b = SignBytes(id, data)

\* Variant of SignedData: the signature covers the scoring data as well.
SignedDataAll(res) == <<Repr(res.challenge), res.scoring>>

\* data = str(self.challenge)
SignedData(res) == Repr(res.challenge)

\* Result.verify(): "true", "false", or "raise" (an address that is no
\* address, a signature that is no hexadecimal text).
Verify(res) ==
    IF res.hotkey = "" \/ FromHexRaises(res.signature) THEN "raise"
    ELSE IF KeypairVerify(res.hotkey, SignedData(res), FromHex(res.signature)) THEN "true"
    ELSE "false"

VARIABLES
    gres,       \* the Result
    gsigned,    \* the Result as sign left it
    gverdict    \* what verify() did since the Result last changed: "none" if not called

gvars == <<gres, gsigned, gverdict>>

vars == <<wvars, svars, qvars, ivars, rvars, kvars, cvars, gvars, lvars, hvars, pvars>>

(***************************************************************************)
(* Initial states                                                          *)
(***************************************************************************)
InitAggregation ==
    /\ inbox = [v \in Validators |-> <<>>]
    /\ yielded = 0
    /\ closed = FALSE
    /\ wpc = [v \in Validators |-> "run"]
    /\ cnt = [v \in Validators |-> [h \in HotkeySet |-> [e \in EnvSet |-> 0]]]
    /\ succ = [v \in Validators |-> [h \in HotkeySet |-> [e \in EnvSet |-> 0]]]
    /\ prev = [v \in Validators |-> [h \in HotkeySet |-> NoPrev]]
    /\ prevOrder = [v \in Validators |-> <<>>]
    /\ branch = [v \in Validators |-> "none"]
    /\ out = [v \in Validators |-> NoOut]
    /\ wset = [v \in Validators |-> NotSet]

\* One validator runs get_weights.
StartWeights ==
    /\ active = {1}
    /\ hashSeed = [v \in Validators |-> 0]
    /\ InitAggregation

\* Two validator processes, each with the hash seed its interpreter drew,
\* run get_weights over the same stream.
StartReplay ==
    /\ active = Validators
    /\ hashSeed \in [Validators -> {0, 1}]
    /\ InitAggregation


\* The shard store, the cache and the caller before the first call.
ShardsAt(order, shapes) ==
    /\ indexOrder = order
    /\ remote = [k \in KeyIds |-> [body |-> ShardOf(k, shapes[k]), lm |-> 1]]
    /\ cached = [k \in KeyIds |-> FALSE]
    /\ file = [k \in KeyIds |-> <<>>]
    /\ stamp = [k \in KeyIds |-> NoStamp]
    /\ mode = "idle"
    /\ phase = "idle"
    /\ limit = 0
    /\ keys = <<>>
    /\ sem = 0
    /\ task = [k \in KeyIds |-> "none"]
    /\ ops = [k \in KeyIds |-> <<>>]
    /\ completion = <<>>
    /\ di = 0
    /\ dnxt = 0
    /\ dlines = <<>>
    /\ ystream = <<>>
    /\ calls = 0
    /\ writes = 0
    /\ failures = 0
    /\ closes = 0

InitShards ==
    \E r \in 1..Len(Shapes) : ShardsAt(OrderFrom(r), ShapesFrom(r))

\* The shard store left alone (the specifications of the other components).
RestShards == ShardsAt([i \in KeyIds |-> i], [k \in KeyIds |-> <<>>])

\* No event loop has created the HTTP semaphore yet; no query is running.
InitQuery ==
    /\ loop = 1
    /\ httpSem = 0
    /\ sems = <<>>
    /\ qpc = [p \in Pairs |-> "idle"]
    /\ qattempt = [p \in Pairs |-> 0]
    /\ qsent = [p \in Pairs |-> 0]
    /\ qretries = [p \in Pairs |-> 0]
    /\ qgate = [p \in Pairs |-> 0]
    /\ qresp = [p \in Pairs |-> NoResponse]

\* An empty bucket without an index; no sink is running.
InitSink ==
    /\ chain \in ChainBlocks
    /\ bucket = [k \in ShardKeySet |-> Absent]
    /\ index = Absent
    /\ sinks = 0
    /\ returned = 0
    /\ ipc = [i \in Slots |-> "idle"]
    /\ ikey = [i \in Slots |-> NoKey]
    /\ ipayload = [i \in Slots |-> <<>>]
    /\ imerged = [i \in Slots |-> <<>>]
    /\ iidx = [i \in Slots |-> {}]
    /\ ilost = [i \in Slots |-> {}]
    /\ isunk = [k \in ShardKeySet |-> {}]
    /\ iraced = [k \in ShardKeySet |-> FALSE]

\* run has not been called.
InitRun ==
    /\ rphase = "idle"
    /\ rorder = <<>>
    /\ rmodel = [m \in Uids |-> FALSE]
    /\ rn = 0
    /\ rtasks = <<>>
    /\ rresponse = <<>>

\* _shard_keys is about to be called with the index idx.
KeysAt(idx, cur, tail, pc) ==
    /\ kidx = idx
    /\ kcur = cur
    /\ ktail = tail
    /\ kpc = pc
    /\ kout = NoKeys

InitKeys ==
    \E idx \in ListsUpTo(IndexKeySet, MaxIndex) : \E cur \in CurrentBlocks : \E tail \in Tails :
        KeysAt(idx, cur, tail, "call")

\* _shard_keys is not called.
RestKeys == KeysAt(<<>>, 25, 0, "done")

\* The values of one construction.
Values(name, form, prompt, extra, given) ==
    [env |-> [name |-> name, form |-> form], prompt |-> prompt, extra |-> extra,
     challenge_id |-> given]

\* Two Challenges are about to be constructed.
InitChallenges ==
    /\ cargs \in [1..2 -> { Values(name, form, prompt, extra, given) :
                              name \in EnvNames, form \in EnvForms, prompt \in Prompts,
                              extra \in Dicts, given \in {NoId, GivenId} }]
    /\ cid = [n \in 1..2 |-> Unset]

\* No Challenge is constructed.
RestChallenges ==
    /\ cargs = [n \in 1..2 |-> Values("SAT", "obj", "p1", <<>>, NoId)]
    /\ cid = [n \in 1..2 |-> NoId]

\* A Result as run returns it: signature = "", hotkey = "".
Unsigned(env, prompt, d) ==
    [challenge |-> [env |-> env, prompt |-> prompt], scoring |-> d,
     hotkey |-> "", signature |-> NoSignature]

InitResult ==
    /\ gres \in { Unsigned(env, prompt, d) : env \in EnvNames, prompt \in SignedPrompts, d \in Scorings }
    /\ gsigned = gres
    /\ gverdict = "none"

\* No Result is signed.
RestResult ==
    /\ gres = Unsigned("SAT", [head |-> "h1", tail |-> "t1", long |-> FALSE], "d1")
    /\ gsigned = gres
    /\ gverdict = "none"

\* The command starts: HEARTBEAT = time.monotonic() at import, SUBTENSOR = None.
LoopAt(cmd) ==
    /\ lmode = cmd
    /\ now = 0
    /\ heartbeat = 0
    /\ wdnext = WatchdogTimeout \div 3
    /\ alive = TRUE
    /\ lpc = "top"
    /\ lsub = NoConn
    /\ gsub = NoConn
    /\ ginit = FALSE
    /\ lfailed = NoConn
    /\ lwake = 0

InitLoop == \E cmd \in Modes : LoopAt(cmd)

\* No loop runs.
RestLoop == LoopAt("runner")

\* One remote shard, written once, and no local copy of it.
InitCache ==
    /\ hremote = [body |-> BodyAt(0), lm |-> 1]
    /\ hfile = NoFile
    /\ hstamp = NoStamp
    /\ htmp = NoFile
    /\ hpc = [f \in Fetchers |-> "idle"]
    /\ hsnap = [f \in Fetchers |-> NoSnap]
    /\ hover = 0
    /\ hcrashed = FALSE

\* get_weights is about to call prune; every shard that has a numeric window
\* part was cached by an earlier call, and the bucket holds the shards of the
\* index and of the cache.
PruneAt(idx, cur, tail, pc) ==
    /\ pidx = idx
    /\ pcur = cur
    /\ ptail = tail
    /\ pcache = NumericKeys
    /\ pdeleted = {}
    /\ premote = Range(idx) \cup NumericKeys
    /\ ppc = pc
    /\ pkeys = NoKeys

InitPrune ==
    \E idx \in ListsUpTo(IndexKeySet, MaxIndex) : \E cur \in CurrentBlocks : \E tail \in Tails :
        PruneAt(idx, cur, tail, "call")

\* prune is not called.
RestPrune == PruneAt(<<>>, 25, 0, "done")
(***************************************************************************)
(* get_weights: the per-Result loop                                        *)
(***************************************************************************)
InPrev(v, hk) == hk \in Range(prevOrder[v])

\* if hk not in cnt or not name.startswith('affine'): continue
Skipped(c) ==
    \/ c.miner.hotkey \notin HotkeySet
    \/ ~StartsWith(NameOf(c), AffinePrefix)

\* p.block != c.miner.block or p.model != c.miner.model or p.revision != c.miner.revision
TripleDiffers(p, m) ==
    \/ p.block # m.block
    \/ p.model # m.model
    \/ p.revision # m.revision

\* Variant of SuccAfter: the sum is never reset.
SuccAfterNoReset(s, hadPrev, p, c) == s + c.score

\* succ[hk][env] after the optional reset and the addition of the score.
SuccAfter(s, hadPrev, p, c) ==
    (IF hadPrev /\ TripleDiffers(p, c.miner) THEN 0 ELSE s) + c.score

\* cnt[hk][env] += 1
CntAfter(n) == n + 1

\* dataset yields the next verified Result r of the stream: each running
\* validator's own dataset call delivers the same r.  The stream is pulled, so
\* the next Result is produced once the previous one has been consumed.
Yield(r) ==
    /\ ~closed
    /\ yielded < MaxResults
    /\ \E v \in active : wpc[v] = "run"
    /\ \A v \in active : inbox[v] = <<>>
    /\ inbox' = [v \in Validators |->
                    IF v \in active /\ wpc[v] = "run" THEN <<r>> ELSE inbox[v]]
    /\ yielded' = yielded + 1
    /\ UNCHANGED <<active, closed, wpc, cnt, succ, prev, prevOrder, branch, hashSeed, out>>
    /\ UNCHANGED wset

\* The stream ends (the last line of the last shard has been consumed).
EndStream ==
    /\ ~closed
    /\ closed' = TRUE
    /\ \A v \in active : inbox[v] = <<>>
    /\ UNCHANGED <<active, inbox, yielded, wpc, cnt, succ, prev, prevOrder, branch, hashSeed, out>>
    /\ UNCHANGED wset

\* One iteration of "async for c in dataset(tail=tail)" in validator v on Result c.
ConsumeResult(v, c) ==
    /\ wpc[v] = "run"
    /\ inbox[v] = <<c>>
    /\ inbox' = [inbox EXCEPT ![v] = Tail(@)]
    /\ IF NameRaises(c)
       THEN \* IndexError leaves get_weights
            /\ wpc' = [wpc EXCEPT ![v] = "error"]
            /\ branch' = [branch EXCEPT ![v] = "raise"]
            /\ UNCHANGED <<cnt, succ, prev, prevOrder>>
       ELSE IF Skipped(c)
       THEN /\ branch' = [branch EXCEPT ![v] = "skip"]
            /\ UNCHANGED <<wpc, cnt, succ, prev, prevOrder>>
       ELSE LET hk  == c.miner.hotkey
                env == c.env
            IN  /\ succ' = [succ EXCEPT ![v][hk][env] =
                               SuccAfter(@, InPrev(v, hk), prev[v][hk], c)]
                /\ cnt' = [cnt EXCEPT ![v][hk][env] = CntAfter(@)]
                /\ prev' = [prev EXCEPT ![v][hk] = c.miner]
                /\ prevOrder' = [prevOrder EXCEPT ![v] =
                                    IF InPrev(v, hk) THEN @ ELSE Append(@, hk)]
                /\ branch' = [branch EXCEPT ![v] =
                                 IF InPrev(v, hk) /\ TripleDiffers(prev[v][hk], c.miner)
                                 THEN "reset" ELSE "count"]
                /\ UNCHANGED wpc
    /\ UNCHANGED <<active, yielded, closed, hashSeed, out>>
    /\ UNCHANGED wset

Consume(v) == inbox[v] # <<>> /\ ConsumeResult(v, Head(inbox[v]))

(***************************************************************************)
(* get_weights: accuracy, dense ranks, dominance and the winner           *)
(***************************************************************************)
\* A float accuracy is kept as the reduced fraction <<numerator, denominator>>.
Frac(n, d) == LET g == GCD(Abs(n), d) IN <<n \div g, d \div g>>
FracLess(x, y) == x[1] * y[2] < y[1] * x[2]

\* acc[hk][e] = float(succ[hk][e])/cnt[hk][e] if cnt[hk][e] else 0
Accuracy(s, n) == IF n # 0 THEN Frac(s, n) ELSE <<0, 1>>

Acc(v) == [h \in HotkeySet |-> [e \in EnvSet |-> Accuracy(succ[v][h][e], cnt[v][h][e])]]

\* sorted(S, reverse=True) on a set of accuracies
RECURSIVE SortDesc(_)
SortDesc(S) ==
    IF S = {} THEN <<>>
    ELSE LET m == CHOOSE x \in S : \A y \in S : ~FracLess(x, y)
         IN  <<m>> \o SortDesc(S \ {m})

\* uniq = sorted({acc[h][e] for h in meta.hotkeys}, reverse=True)
Uniq(acc, e) == SortDesc({acc[h][e] : h \in HotkeySet})

\* rank_of = {v: i+1 for i, v in enumerate(uniq)}; rank_of[a]
RankOf(uniq, a) == CHOOSE i \in 1..Len(uniq) : uniq[i] = a

\* Variant of Ranks: competition ranking (1 + the number of identities with
\* a strictly higher accuracy), which leaves gaps after ties.
RanksCompetition(acc) ==
    [e \in EnvSet |-> [h \in HotkeySet |->
        1 + Cardinality({g \in HotkeySet : FracLess(acc[h][e], acc[g][e])})]]

\* ranks[e] = {h: rank_of[acc[h][e]] for h in meta.hotkeys}
Ranks(acc) == [e \in EnvSet |-> [h \in HotkeySet |-> RankOf(Uniq(acc, e), acc[h][e])]]

\* Variant of Dominates: the strict comparison weakened to <=.
DominatesWeak(ranks, a, b) ==
    /\ \A e \in EnvSet : ranks[e][a] <= ranks[e][b]
    /\ \E e \in EnvSet : ranks[e][a] <= ranks[e][b]

\* all(ranks[e][a] <= ranks[e][b]) and any(ranks[e][a] < ranks[e][b])
Dominates(ranks, a, b) ==
    /\ \A e \in EnvSet : ranks[e][a] <= ranks[e][b]
    /\ \E e \in EnvSet : ranks[e][a] < ranks[e][b]

\* The ordered pairs of itertools.permutations(meta.hotkeys, 2) for which
\* the dominance test holds and dom[a] is incremented.
DomPairs(ranks) ==
    {p \in HotkeySet \X HotkeySet : p[1] # p[2] /\ Dominates(ranks, p[1], p[2])}

\* dom[a]: the number of increments for a
Dom(pairs) == [a \in HotkeySet |-> Cardinality({p \in pairs : p[1] = a})]

\* Variant of BestKey: the block is not negated, so the latest block wins.
BestKeyLatest(v, dom, hk) == <<dom[hk], prev[v][hk].block>>

\* key=lambda hk: (dom[hk], -prev[hk].miner.block), compared as tuples
BestKey(v, dom, hk) == <<dom[hk], -(prev[v][hk].block)>>
\* Variant of KeyLess: the second component alone decides.
KeyLessSecond(k1, k2) == k1[2] < k2[2]

\* The order of Python tuples: the first component, then the second.
KeyLess(k1, k2) == k1[1] < k2[1] \/ (k1[1] = k2[1] /\ k1[2] < k2[2])

\* max(iterable, key): the first element, in iteration order, with a maximal key
MaxFirst(order, v, dom) ==
    LET i == CHOOSE k \in 1..Len(order) :
                 /\ \A j \in 1..Len(order) :
                        ~KeyLess(BestKey(v, dom, order[k]), BestKey(v, dom, order[j]))
                 /\ \A j \in 1..(k - 1) :
                        KeyLess(BestKey(v, dom, order[j]), BestKey(v, dom, order[k]))
    IN  order[i]

\* The keys of prev as a set would iterate them: in the order the process's
\* string hashing gives.
HashOrder(v) ==
    LET all == IF hashSeed[v] = 0 THEN Hotkeys
               ELSE [i \in 1..Len(Hotkeys) |-> Hotkeys[Len(Hotkeys) + 1 - i]]
    IN  SelectSeq(all, LAMBDA h : InPrev(v, h))

\* Variant of Best: the keys are iterated as a set, in hash order.
BestHashed(v, dom) == MaxFirst(HashOrder(v), v, dom)

\* best = max(prev, key=...): prev is a dict, iterated in insertion order
Best(v, dom) == MaxFirst(prevOrder[v], v, dom)

\* Variant of IndexOf: positions counted from 1.
IndexOfFromOne(hk) == CHOOSE i \in 1..Len(Hotkeys) : Hotkeys[i] = hk

\* meta.hotkeys.index(best)
IndexOf(hk) == (CHOOSE i \in 1..Len(Hotkeys) : Hotkeys[i] = hk) - 1

\* The stream is exhausted: the code after the loop runs to the return, or
\* max() raises ValueError on an empty prev.
Finish(v) ==
    /\ wpc[v] = "run"
    /\ closed
    /\ inbox[v] = <<>>
    /\ IF prevOrder[v] = <<>>
       THEN /\ wpc' = [wpc EXCEPT ![v] = "error"]
            /\ UNCHANGED out
       ELSE \* each local is computed once, in the order of the code
            \E acc \in {Acc(v)} :
            \E ranks \in {Ranks(acc)} :
            \E pairs \in {DomPairs(ranks)} :
            \E dom \in {Dom(pairs)} :
            \E best \in {Best(v, dom)} :
                /\ out' = [out EXCEPT ![v] =
                              [status |-> "ok", acc |-> acc, ranks |-> ranks,
                               pairs |-> pairs, dom |-> dom, best |-> best,
                               best_uid |-> IndexOf(best)]]
                /\ wpc' = [wpc EXCEPT ![v] = "done"]
    /\ UNCHANGED <<active, inbox, yielded, closed, cnt, succ, prev, prevOrder, branch, hashSeed>>
    /\ UNCHANGED wset

(***************************************************************************)
(* validate: what follows get_weights in the iteration                     *)
(***************************************************************************)
\* winner_uid, _ = await get_weights(); await retry_set_weights(wallet, winner_uid, retry = 3)
SetWeights(v) ==
    /\ wpc[v] = "done"
    /\ wset[v] = NotSet
    /\ wset' = [wset EXCEPT ![v] = SetTo(out[v].best_uid)]
    /\ UNCHANGED <<active, inbox, yielded, closed, wpc, cnt, succ, prev, prevOrder, branch, hashSeed, out>>

\* get_weights raised: except Exception: ...; await asyncio.sleep(10); continue
GetWeightsFailed(v) ==
    /\ wpc[v] = "error"
    /\ wset[v] = NotSet
    /\ wset' = [wset EXCEPT ![v] = NoneSet]
    /\ UNCHANGED <<active, inbox, yielded, closed, wpc, cnt, succ, prev, prevOrder, branch, hashSeed, out>>

(***************************************************************************)
(* _cache_shard: one task per key, all tasks of a call share the call's    *)
(* semaphore                                                               *)
(***************************************************************************)
Settled(k) == task[k] \in {"none", "done", "failed"}

\* The tasks that are performing a remote operation (head_object or
\* get_object and the read of its body).
InFlight == {k \in KeyIds : task[k] \in {"head", "get"}}

\* Variant of Locked: the semaphore never blocks.
LockedNever(s) == FALSE

\* asyncio.Semaphore.locked()
Locked(s) == s <= 0

\* Variant of FirstOp: the local copy is never looked at.
FirstOpTransfer(k) == "get"

\* if out.exists() and stamp.exists(): head_object first; else get_object
FirstOp(k) == IF cached[k] /\ stamp[k] # NoStamp THEN "head" ELSE "get"

\* async with sem, get_client_ctx() as c: the semaphore is taken, then
\* "if out.exists() and stamp.exists()" chooses the probe or the transfer.
Acquire(k) ==
    /\ task[k] = "wait"
    /\ ~Locked(sem)
    /\ sem' = sem - 1
    /\ task' = [task EXCEPT ![k] = FirstOp(k)]
    /\ ops' = [ops EXCEPT ![k] = Append(@, FirstOp(k))]
    /\ UNCHANGED <<indexOrder, remote, cached, file, stamp, mode, phase, limit, keys,
                   completion, di, dnxt, dlines, ystream, calls, writes, failures>>
    /\ UNCHANGED closes

\* head_object answers: an unchanged LastModified returns the cached path
\* (leaving the with block releases the semaphore); otherwise get_object is
\* issued under the same hold of the semaphore.
HeadDone(k) ==
    /\ task[k] = "head"
    /\ IF remote[k].lm = stamp[k]
       THEN /\ task' = [task EXCEPT ![k] = "done"]
            /\ sem' = sem + 1
            /\ completion' = Append(completion, k)
            /\ UNCHANGED ops
       ELSE /\ task' = [task EXCEPT ![k] = "get"]
            /\ ops' = [ops EXCEPT ![k] = Append(@, "get")]
            /\ UNCHANGED <<sem, completion>>
    /\ UNCHANGED <<indexOrder, remote, cached, file, stamp, mode, phase, limit, keys,
                   di, dnxt, dlines, ystream, calls, writes, failures>>
    /\ UNCHANGED closes

\* get_object and the read of the body answer: the with block is left (the
\* semaphore is released), then the file is written and renamed and the
\* stamp is written, without a suspension point in between.
GetDone(k) ==
    /\ task[k] = "get"
    /\ sem' = sem + 1
    /\ file' = [file EXCEPT ![k] = ToJsonl(remote[k].body)]
    /\ cached' = [cached EXCEPT ![k] = TRUE]
    /\ stamp' = [stamp EXCEPT ![k] = remote[k].lm]
    /\ task' = [task EXCEPT ![k] = "done"]
    /\ completion' = Append(completion, k)
    /\ UNCHANGED <<indexOrder, remote, ops, mode, phase, limit, keys,
                   di, dnxt, dlines, ystream, calls, writes, failures>>
    /\ UNCHANGED closes

\* Variant of ReleasedByError: the exception leaves the semaphore taken.
HeldThroughError(s) == s

\* "async with sem" left by an exception: __aexit__ releases the semaphore.
ReleasedByError(s) == s + 1

\* The remote operation in progress raises: the with block is left by the
\* exception (the semaphore is released) and the task fails.
TransferFail(k) ==
    /\ task[k] \in {"head", "get"}
    /\ failures < MaxFailures
    /\ failures' = failures + 1
    /\ sem' = ReleasedByError(sem)
    /\ task' = [task EXCEPT ![k] = "failed"]
    /\ UNCHANGED <<ops, indexOrder, remote, cached, file, stamp, mode, phase, limit, keys,
                   completion, di, dnxt, dlines, ystream, calls, writes>>
    /\ UNCHANGED closes

\* Another writer's sink appends a Result to the remote shard k.
RemoteAppend(k) ==
    /\ writes < MaxRemoteWrites
    /\ writes' = writes + 1
    /\ remote' = [remote EXCEPT ![k] =
                     [body |-> Append(@.body, Entry(k, Len(@.body) + 1, "ok")),
                      lm |-> @.lm + 1]]
    /\ UNCHANGED <<indexOrder, cached, file, stamp, mode, phase, limit, keys, sem, task, ops,
                   completion, di, dnxt, dlines, ystream, calls, failures>>
    /\ UNCHANGED closes

(***************************************************************************)
(* prefetch and dataset                                                    *)
(***************************************************************************)
\* A call can be made when no call is in progress and the tasks of the
\* previous one have come to an end.
CanCall ==
    /\ phase \in {"idle", "done", "error", "closed"}
    /\ \A k \in KeyIds : Settled(k)
    /\ calls < MaxCalls

\* keys = await _shard_keys(tail): every key of the index is in the window.
ShardKeys == SortKeys(indexOrder)

\* prefetch(tail, K): sem = Semaphore(K); gather(*(_cache_shard(k, sem) for k in keys))
CallPrefetch(K) ==
    /\ CanCall
    /\ calls' = calls + 1
    /\ mode' = "prefetch"
    /\ phase' = "gather"
    /\ limit' = K
    /\ keys' = ShardKeys
    /\ sem' = K
    /\ task' = [k \in KeyIds |-> "wait"]
    /\ ops' = [k \in KeyIds |-> <<>>]
    /\ completion' = <<>>
    /\ di' = 0 /\ dnxt' = 0 /\ dlines' = <<>> /\ ystream' = <<>>
    /\ UNCHANGED <<indexOrder, remote, cached, file, stamp, writes, failures>>
    /\ UNCHANGED closes

\* gather returns when every task is done.
PrefetchReturn ==
    /\ mode = "prefetch" /\ phase = "gather"
    /\ \A k \in KeyIds : task[k] = "done"
    /\ phase' = "done"
    /\ UNCHANGED <<indexOrder, remote, cached, file, stamp, mode, limit, keys, sem, task, ops,
                   completion, di, dnxt, dlines, ystream, calls, writes, failures>>
    /\ UNCHANGED closes

\* gather raises the first exception of a task; the other tasks run on.
PrefetchRaise ==
    /\ mode = "prefetch" /\ phase = "gather"
    /\ \E k \in KeyIds : task[k] = "failed"
    /\ phase' = "error"
    /\ UNCHANGED <<indexOrder, remote, cached, file, stamp, mode, limit, keys, sem, task, ops,
                   completion, di, dnxt, dlines, ystream, calls, writes, failures>>
    /\ UNCHANGED closes

\* dataset(tail, K) up to the first "await tasks[i]":
\*   tasks = [create_task(_cache_shard(k, sem)) for k in keys[:K]]; nxt = K
CallDataset(K) ==
    /\ CanCall
    /\ calls' = calls + 1
    /\ mode' = "dataset"
    /\ phase' = "await"
    /\ limit' = K
    /\ keys' = ShardKeys
    /\ sem' = K
    /\ task' = [k \in KeyIds |->
                   IF \E i \in 1..K : i <= Len(ShardKeys) /\ ShardKeys[i] = k
                   THEN "wait" ELSE "none"]
    /\ ops' = [k \in KeyIds |-> <<>>]
    /\ completion' = <<>>
    /\ di' = 1
    /\ dnxt' = K
    /\ dlines' = <<>>
    /\ ystream' = <<>>
    /\ UNCHANGED <<indexOrder, remote, cached, file, stamp, writes, failures>>
    /\ UNCHANGED closes

\* path = await tasks[i]: the shard in progress is the i-th key.
AwaitedKey(i) == keys[i]

\* Variant of NextKey: the key at the position before nxt (started already).
NextKeyAgain(nxt) == keys[nxt]

\* keys[nxt] of the code, whose list positions start at 0.
NextKey(nxt) == keys[nxt + 1]

\* path = await tasks[i] returns; the next fetch is started; the file at path
\* is opened.
DatasetAwait ==
    /\ mode = "dataset" /\ phase = "await"
    /\ task[AwaitedKey(di)] = "done"
    /\ IF dnxt < Len(keys)
       THEN /\ task' = [task EXCEPT ![NextKey(dnxt)] = "wait"]
            /\ dnxt' = dnxt + 1
       ELSE UNCHANGED <<task, dnxt>>
    /\ UNCHANGED ops
    /\ dlines' = FileLines(file[AwaitedKey(di)])
    /\ phase' = "iter"
    /\ UNCHANGED <<indexOrder, remote, cached, file, stamp, mode, limit, keys, sem,
                   completion, di, ystream, calls, writes, failures>>
    /\ UNCHANGED closes

\* await tasks[i] raises the task's exception out of dataset.
DatasetAwaitRaise ==
    /\ mode = "dataset" /\ phase = "await"
    /\ task[AwaitedKey(di)] = "failed"
    /\ phase' = "error"
    /\ UNCHANGED <<indexOrder, remote, cached, file, stamp, mode, limit, keys, sem, task, ops,
                   completion, di, dnxt, dlines, ystream, calls, writes, failures>>
    /\ UNCHANGED closes

\* One iteration of "async for raw in _jsonl(path)".
IterLine ==
    /\ mode = "dataset" /\ phase = "iter"
    /\ dlines # <<>>
    /\ LET raw == Head(dlines)
           o   == LineOutcome(raw)
       IN  /\ ystream' = IF o = "yield" THEN Append(ystream, raw[1]) ELSE ystream
           /\ phase' = IF o = "raise" THEN "error" ELSE phase
    /\ dlines' = Tail(dlines)
    /\ UNCHANGED <<indexOrder, remote, cached, file, stamp, mode, limit, keys, sem, task, ops,
                   completion, di, dnxt, calls, writes, failures>>
    /\ UNCHANGED closes

\* Variant of MoreShards: the loop ends before the last key.
MoreShardsButLast(i) == i + 1 < Len(keys)

\* for i, key in enumerate(keys): there is a key after the i-th one.
MoreShards(i) == i < Len(keys)

\* The file is exhausted: the for loop goes to the next key, or ends.
NextShard ==
    /\ mode = "dataset" /\ phase = "iter"
    /\ dlines = <<>>
    /\ IF MoreShards(di)
       THEN di' = di + 1 /\ phase' = "await"
       ELSE di' = di /\ phase' = "done"
    /\ UNCHANGED <<indexOrder, remote, cached, file, stamp, mode, limit, keys, sem, task, ops,
                   completion, dnxt, dlines, ystream, calls, writes, failures>>
    /\ UNCHANGED closes

\* The generator is suspended at "yield r": the line read last was yielded.
AtYield ==
    LET all == FileLines(file[AwaitedKey(di)])
        c   == Len(all) - Len(dlines)
    IN  c >= 1 /\ LineOutcome(all[c]) = "yield"

\* The consumer stops iterating the stream before its end: the generator is
\* dropped while suspended at a yield (its locals are gone); the tasks it
\* created run on.
DatasetClose ==
    /\ mode = "dataset" /\ phase = "iter"
    /\ AtYield
    /\ phase' = "closed"
    /\ di' = 0 /\ dnxt' = 0 /\ dlines' = <<>> /\ ystream' = <<>>
    /\ closes' = closes + 1
    /\ UNCHANGED <<indexOrder, remote, cached, file, stamp, mode, limit, keys, sem, task, ops,
                   completion, calls, writes, failures>>
(***************************************************************************)
(* get_http_semaphore and query                                            *)
(***************************************************************************)
\* Variant of NeedsNewSemaphore: a semaphore is created on every call, as in
\* the branch taken when no event loop is running.
AlwaysNewSemaphore == TRUE

\* _HTTP_SEM is None or getattr(_HTTP_SEM, '_loop', None) != loop
NeedsNewSemaphore == httpSem = 0 \/ sems[httpSem].loop # loop

\* The semaphore objects after get_http_semaphore() and the one it returns.
SemsAfterGet ==
    IF NeedsNewSemaphore
    THEN Append(sems, [loop |-> loop, value |-> HttpConcurrency])
    ELSE sems

GottenSemaphore == IF NeedsNewSemaphore THEN Len(sems) + 1 ELSE httpSem

\* The calls of query() whose HTTP call is in flight.
HttpInFlight == {p \in Pairs : qpc[p] = "inflight"}

\* query(..., retries=r) is called: for attempt in range(1, retries+2)
StartQuery(p, r) ==
    /\ qpc[p] \in {"idle", "returned"}
    /\ qpc' = [qpc EXCEPT ![p] = "attempt"]
    /\ qattempt' = [qattempt EXCEPT ![p] = 1]
    /\ qretries' = [qretries EXCEPT ![p] = r]
    /\ qresp' = [qresp EXCEPT ![p] = NoResponse]
    /\ UNCHANGED <<loop, httpSem, sems, qgate, qsent>>

\* http_sem = get_http_semaphore(); async with http_sem, sess.post(...):
\* a free semaphore is taken at once and the request is sent, otherwise the
\* attempt waits for the semaphore.
EnterGate(p) ==
    /\ qpc[p] = "attempt"
    /\ LET s  == GottenSemaphore
           ss == SemsAfterGet
       IN  /\ httpSem' = s
           /\ qgate' = [qgate EXCEPT ![p] = s]
           /\ IF ss[s].value > 0
              THEN /\ sems' = [ss EXCEPT ![s].value = @ - 1]
                   /\ qpc' = [qpc EXCEPT ![p] = "inflight"]
                   /\ qsent' = [qsent EXCEPT ![p] = @ + 1]
              ELSE /\ sems' = ss
                   /\ qpc' = [qpc EXCEPT ![p] = "waiting"]
                   /\ UNCHANGED qsent
    /\ UNCHANGED <<loop, qattempt, qretries, qresp>>

\* A waiting attempt gets the semaphore and sends the request.
AcquireGate(p) ==
    /\ qpc[p] = "waiting"
    /\ sems[qgate[p]].value > 0
    /\ sems' = [sems EXCEPT ![qgate[p]].value = @ - 1]
    /\ qpc' = [qpc EXCEPT ![p] = "inflight"]
    /\ qsent' = [qsent EXCEPT ![p] = @ + 1]
    /\ UNCHANGED <<loop, httpSem, qattempt, qretries, qgate, qresp>>

\* Variant of Exhausted: one more attempt is made.
ExhaustedLate(p) == qattempt[p] > qretries[p] + 1

\* if attempt > retries
Exhausted(p) == qattempt[p] > qretries[p]

\* Variant of GateAfterAttempt: an attempt that raises keeps its slot.
GateAfterAttemptKept(v, o) == IF AttemptResult(o) = "raise" THEN v ELSE v + 1

\* "async with http_sem, ..." is left, by a return or by an exception: the
\* semaphore is released before the except clause runs.
GateAfterAttempt(v, o) == v + 1

\* The HTTP call ends with outcome o: the with block is left and the semaphore
\* released; the call returns (its locals are gone), or the except clause
\* returns the failure or goes to sleep before the next attempt.
Complete(p, o) ==
    /\ qpc[p] = "inflight"
    /\ sems' = [sems EXCEPT ![qgate[p]].value = GateAfterAttempt(@, o)]
    /\ LET res == AttemptResult(o)
       IN  IF res = "raise" /\ ~Exhausted(p)
           THEN /\ qpc' = [qpc EXCEPT ![p] = "backoff"]
                /\ UNCHANGED <<qresp, qattempt, qsent, qretries, qgate>>
           ELSE /\ qresp' = [qresp EXCEPT ![p] =
                        IF res = "ok" THEN Response(qattempt[p], "none", TRUE)
                        ELSE IF res = "terminal" THEN Response(qattempt[p], "terminal", FALSE)
                        ELSE Response(qattempt[p], "exception", FALSE)]
                /\ qpc' = [qpc EXCEPT ![p] = "returned"]
                /\ qattempt' = [qattempt EXCEPT ![p] = 0]
                /\ qsent' = [qsent EXCEPT ![p] = 0]
                /\ qretries' = [qretries EXCEPT ![p] = 0]
                /\ qgate' = [qgate EXCEPT ![p] = 0]
    /\ UNCHANGED <<loop, httpSem>>

\* asyncio.sleep(backoff * 2**(attempt-1) * ...) returns: the next attempt.
BackoffDone(p) ==
    /\ qpc[p] = "backoff"
    /\ qattempt' = [qattempt EXCEPT ![p] = @ + 1]
    /\ qpc' = [qpc EXCEPT ![p] = "attempt"]
    /\ UNCHANGED <<loop, httpSem, sems, qsent, qretries, qgate, qresp>>

\* asyncio.run() returns and is called again: a new event loop runs, with no
\* task of the old one; the module global _HTTP_SEM stays as it is.
NewLoop ==
    /\ loop < MaxLoops
    /\ \A p \in Pairs : qpc[p] \in {"idle", "returned"}
    /\ loop' = loop + 1
    /\ qpc' = [p \in Pairs |-> "idle"]
    /\ qresp' = [p \in Pairs |-> NoResponse]
    /\ UNCHANGED <<httpSem, sems, qattempt, qsent, qretries, qgate>>

(***************************************************************************)
(* sink and _update_index                                                  *)
(***************************************************************************)
IndexKeys == IF index.exists THEN Range(index.body) ELSE {}

\* Variant of NewShard: every invocation turns to the index.
NewShardAlways(i) == TRUE

\* len(merged) == len(payload)
NewShard(i) == Len(imerged[i]) = Len(ipayload[i])

\* _update_index(k) is in progress in some invocation, or follows its put.
Registering(k) ==
    \E i \in Slots :
        /\ ikey[i] = k
        /\ \/ ipc[i] \in {"idxget", "idxput"}
           \/ ipc[i] = "put" /\ NewShard(i)

\* The shard of k exists, the index does not list k, and no invocation is
\* about to register k.
Lost(k) == bucket[k].exists /\ k \notin IndexKeys /\ ~Registering(k)

\* The invocation in slot i ends, by return or by an exception; its locals
\* are gone and the slot is free.
Leave(i, how) ==
    /\ ipc' = [ipc EXCEPT ![i] = "idle"]
    /\ returned' = IF how = "return" THEN returned + 1 ELSE returned
    /\ ikey' = [ikey EXCEPT ![i] = NoKey]
    /\ ipayload' = [ipayload EXCEPT ![i] = <<>>]
    /\ imerged' = [imerged EXCEPT ![i] = <<>>]
    /\ iidx' = [iidx EXCEPT ![i] = {}]
    /\ ilost' = [ilost EXCEPT ![i] = {}]

\* The slot a new invocation takes: the first free one.
FreeSlot(i) == ipc[i] = "idle" /\ \A j \in Slots : j < i => ipc[j] # "idle"

\* sink(wallet, results, block) up to its first request to the bucket:
\*   if not results: return
\*   block = block or await sub.get_current_block(); key = ...; payload = ...
StartSink(i, hk, n, b) ==
    /\ FreeSlot(i)
    /\ sinks < MaxSinks
    /\ sinks' = sinks + 1
    /\ IF n = 0
       THEN Leave(i, "return")
       ELSE /\ ipc' = [ipc EXCEPT ![i] = "get"]
            /\ ikey' = [ikey EXCEPT ![i] = ShardKey(Window(BlockUsed(b, chain)), hk)]
            /\ ipayload' = [ipayload EXCEPT ![i] = Payload(hk, sinks + 1, n)]
            /\ ilost' = [ilost EXCEPT ![i] = {k \in ShardKeySet : Lost(k)}]
            /\ UNCHANGED <<imerged, iidx, returned>>
    /\ iraced' = IF n = 0 THEN iraced
                 ELSE [k \in ShardKeySet |->
                         \/ iraced[k]
                         \/ /\ k = ShardKey(Window(BlockUsed(b, chain)), hk)
                            /\ \E j \in Slots : ipc[j] # "idle" /\ ikey[j] = k]
    /\ UNCHANGED <<chain, bucket, index, isunk>>

\* Variant of Merge: the new Results go in front.
MergePrepend(old, payload) == payload \o old

\* json.loads(await r["Body"].read()) + payload
Merge(old, payload) == old \o payload

\* Variant of AfterGet: the key is registered in the index first.
AfterGetRegister(i) == "idxget"

\* The request that follows get_object in sink: put_object of the shard.
AfterGet(i) == "put"

\* r = await c.get_object(Key=key); merged = json.loads(...) + payload
\* except NoSuchKey: merged = payload
SinkGet(i) ==
    /\ ipc[i] = "get"
    /\ imerged' = [imerged EXCEPT ![i] =
                      IF bucket[ikey[i]].exists
                      THEN Merge(bucket[ikey[i]].body, ipayload[i])
                      ELSE ipayload[i]]
    /\ ipc' = [ipc EXCEPT ![i] = AfterGet(i)]
    /\ UNCHANGED <<chain, bucket, index, sinks, returned, ikey, ipayload, iidx, ilost, isunk, iraced>>

\* The call number of the invocation in slot i.
CallOf(i) == ipayload[i][1].call

\* Variant of PutBody: the merge is made with the shard as it is when the put
\* arrives.
PutBodyAtomic(i) ==
    IF bucket[ikey[i]].exists THEN Merge(bucket[ikey[i]].body, ipayload[i]) ELSE ipayload[i]

\* Body=_dumps(merged)
PutBody(i) == imerged[i]

\* await c.put_object(Key=key, Body=_dumps(merged));
\* if len(merged) == len(payload): await _update_index(key)
SinkPut(i) ==
    /\ ipc[i] = "put"
    /\ bucket' = [bucket EXCEPT ![ikey[i]] = Object(PutBody(i))]
    /\ isunk' = [isunk EXCEPT ![ikey[i]] = @ \cup {CallOf(i)}]
    /\ IF NewShard(i)
       THEN /\ ipc' = [ipc EXCEPT ![i] = "idxget"]
            /\ UNCHANGED <<ikey, ipayload, imerged, iidx, ilost, returned>>
       ELSE Leave(i, "return")
    /\ UNCHANGED <<chain, index, sinks, iraced>>

\* Variant of NeedsPut: the index is written whether or not it lists the key.
NeedsPutAlways(idx, k) == TRUE

\* if key not in idx
NeedsPut(idx, k) == k \notin idx

\* _update_index: r = await c.get_object(Key=INDEX_KEY); idx = set(json.loads(...))
\* except NoSuchKey: idx = set();  if key not in idx: idx.add(key); put ...
IndexGet(i) ==
    /\ ipc[i] = "idxget"
    /\ IF NeedsPut(IndexKeys, ikey[i])
       THEN /\ ipc' = [ipc EXCEPT ![i] = "idxput"]
            /\ iidx' = [iidx EXCEPT ![i] = IndexKeys]
            /\ UNCHANGED <<ikey, ipayload, imerged, ilost, returned>>
       ELSE Leave(i, "return")
    /\ UNCHANGED <<chain, bucket, index, sinks, isunk, iraced>>

\* Variant of IndexBody: the key is added to the index as it is when the put
\* arrives.
IndexBodyMerged(i) == SortedKeys(IndexKeys \cup {ikey[i]})

\* Body=_dumps(sorted(idx)) after idx.add(key)
IndexBody(i) == SortedKeys(iidx[i] \cup {ikey[i]})

\* await c.put_object(Key=INDEX_KEY, Body=_dumps(sorted(idx)))
IndexPut(i) ==
    /\ ipc[i] = "idxput"
    /\ index' = Object(IndexBody(i))
    /\ Leave(i, "return")
    /\ UNCHANGED <<chain, bucket, sinks, isunk, iraced>>

\* A request to the bucket raises (other than NoSuchKey): the exception leaves
\* sink.
SinkFail(i) ==
    /\ ipc[i] \in {"get", "put", "idxget", "idxput"}
    /\ Leave(i, "raise")
    /\ UNCHANGED <<chain, bucket, index, sinks, isunk, iraced>>

(***************************************************************************)
(* run and proc                                                            *)
(***************************************************************************)
\* run(challenges, miners) up to "await asyncio.gather(...)".
CallRun(order, hasModel, n) ==
    /\ rphase \in {"idle", "returned", "raised"}
    /\ rphase' = "gather"
    /\ rorder' = order
    /\ rmodel' = hasModel
    /\ rn' = n
    /\ rtasks' = TasksFor(order, hasModel, n)
    /\ rresponse' = <<>>

\* resp = await query(...): query returns a Response, successful or not.
QueryReturns(t) ==
    /\ rphase = "gather"
    /\ rtasks[t].pc = "query"
    /\ rtasks' = [rtasks EXCEPT ![t].pc = "evaluate"]
    /\ UNCHANGED <<rphase, rorder, rmodel, rn, rresponse>>

\* ev = await chal.evaluate(resp) returns; the Result is built.
EvaluateReturns(t, s) ==
    /\ rphase = "gather"
    /\ rtasks[t].pc = "evaluate"
    /\ rtasks' = [rtasks EXCEPT ![t].pc = "done", ![t].ev = Scored(s)]
    /\ UNCHANGED <<rphase, rorder, rmodel, rn, rresponse>>

\* Variant of OnEvaluateError: the exception of evaluate leaves proc.
OnEvaluateErrorRaise(t) == [t EXCEPT !.pc = "failed"]

\* except Exception as e: ev = Evaluation(env=chal.env, score=0.0, extra=...)
OnEvaluateError(t) == [t EXCEPT !.pc = "done", !.ev = Substituted]

\* chal.evaluate(resp) raises.
EvaluateRaises(t) ==
    /\ rphase = "gather"
    /\ rtasks[t].pc = "evaluate"
    /\ rtasks' = [rtasks EXCEPT ![t] = OnEvaluateError(@)]
    /\ UNCHANGED <<rphase, rorder, rmodel, rn, rresponse>>

\* An exception outside the try of proc: query raises before its own try
\* (get_conf, the session), or Result(...) does not validate.
TaskRaises(t) ==
    /\ rphase = "gather"
    /\ rtasks[t].pc \in {"query", "evaluate"}
    /\ rtasks' = [rtasks EXCEPT ![t].pc = "failed"]
    /\ UNCHANGED <<rphase, rorder, rmodel, rn, rresponse>>

\* Variant of ReturnExceptions: gather raises the first exception of a task.
ReturnExceptionsOff == FALSE

\* asyncio.gather(*tasks, return_exceptions=True)
ReturnExceptions == TRUE

TaskSettled(t) == t.pc \in {"done", "failed"}

\* for result in results: if isinstance(result, Exception): continue
\*                        response.append(result)
Collected == SelectSeq(rtasks, LAMBDA t : t.pc # "failed")

\* gather ends: with return_exceptions it waits for every task and returns
\* the results and exceptions in the order of the tasks; the loop keeps the
\* results; run returns response.
GatherEnds ==
    /\ rphase = "gather"
    /\ IF ReturnExceptions
       THEN /\ \A i \in 1..Len(rtasks) : TaskSettled(rtasks[i])
            /\ rphase' = "returned"
            /\ rresponse' = [j \in 1..Len(Collected) |-> ResultOf(Collected[j])]
       ELSE /\ \/ \A i \in 1..Len(rtasks) : rtasks[i].pc = "done"
               \/ \E i \in 1..Len(rtasks) : rtasks[i].pc = "failed"
            /\ IF \E i \in 1..Len(rtasks) : rtasks[i].pc = "failed"
               THEN rphase' = "raised" /\ rresponse' = <<>>
               ELSE /\ rphase' = "returned"
                    /\ rresponse' = [j \in 1..Len(rtasks) |-> ResultOf(rtasks[j])]
    /\ UNCHANGED <<rorder, rmodel, rn, rtasks>>

(***************************************************************************)
(* _shard_keys                                                             *)
(***************************************************************************)
\* keys = await _shard_keys(tail)
CallShardKeys ==
    /\ kpc = "call"
    /\ kpc' = "done"
    /\ kout' = ShardKeysFor(kidx, kcur, ktail)
    /\ UNCHANGED <<kidx, kcur, ktail>>

(***************************************************************************)
(* watchdog, runner._run, validate._run, get_subtensor                     *)
(***************************************************************************)
\* Time passes.
Tick ==
    /\ alive
    /\ now < MaxTime
    /\ now' = now + 1
    /\ UNCHANGED <<lmode, heartbeat, wdnext, alive, lpc, lsub, gsub, ginit, lfailed, lwake>>

\* The watchdog wakes from asyncio.sleep(timeout // 3), at wdnext or later:
\*   elapsed = time.monotonic() - HEARTBEAT; if elapsed > timeout: os._exit(1)
WatchdogCheck ==
    /\ alive
    /\ now >= wdnext
    /\ IF Stalled(now - heartbeat)
       THEN alive' = FALSE /\ UNCHANGED wdnext
       ELSE wdnext' = now + (WatchdogTimeout \div 3) /\ UNCHANGED alive
    /\ UNCHANGED <<lmode, now, heartbeat, lpc, lsub, gsub, ginit, lfailed, lwake>>

\* The top of "while True".  validate: HEARTBEAT = time.monotonic()
LoopTop ==
    /\ alive
    /\ lpc = "top"
    /\ lpc' = "connect"
    /\ heartbeat' = IF lmode = "validate" THEN now ELSE heartbeat
    /\ UNCHANGED <<lmode, now, wdnext, alive, lsub, gsub, ginit, lfailed, lwake>>

\* The step after the connection is there.
AfterConnect == IF lmode = "runner" THEN "metagraph" ELSE "block"

\* get_subtensor(): SUBTENSOR when it is set, a new connection otherwise.
GetSubtensor == IF gsub = NoConn THEN 1 ELSE gsub

\* if subtensor is None: subtensor = await get_subtensor()
Connect ==
    /\ alive
    /\ lpc = "connect"
    /\ IF lsub = NoConn
       THEN /\ lsub' = GetSubtensor
            /\ gsub' = GetSubtensor
            /\ ginit' = IF gsub = NoConn THEN TRUE ELSE ginit
       ELSE UNCHANGED <<lsub, gsub, ginit>>
    /\ lpc' = AfterConnect
    /\ lfailed' = NoConn
    /\ UNCHANGED <<lmode, now, heartbeat, wdnext, alive, lwake>>

\* except Exception: subtensor = None; await asyncio.sleep(10); continue
Failed ==
    /\ lsub' = NoConn
    /\ lfailed' = lsub
    /\ lpc' = "cooldown"
    /\ lwake' = now + Cooldown

\* get_subtensor() raises while it makes the connection: bt.async_subtensor
\* raises and SUBTENSOR stays None, or initialize() raises and SUBTENSOR
\* keeps the connection.
ConnectFails(assigned) ==
    /\ alive
    /\ lpc = "connect"
    /\ lsub = NoConn
    /\ gsub = NoConn
    /\ gsub' = IF assigned THEN 1 ELSE NoConn
    /\ UNCHANGED ginit
    /\ Failed
    /\ UNCHANGED <<lmode, now, heartbeat, wdnext, alive>>

\* The step after lpc when the calls of lpc return.
\* runner:   metagraph, get_current_block, then miners / generate / run / sink
\* validate: get_current_block, then prefetch and wait_for_block, or
\*           get_weights and retry_set_weights, get_subtensor, get_current_block
StepsAfter(cmd, pc) ==
    CASE cmd = "runner" /\ pc = "metagraph" -> {"block"}
      [] cmd = "runner" /\ pc = "block" -> {"work"}
      [] cmd = "runner" /\ pc = "work" -> {"top"}
      [] cmd = "validate" /\ pc = "block" -> {"prefetch", "weights"}
      [] cmd = "validate" /\ pc = "prefetch" -> {"top"}
      [] cmd = "validate" /\ pc = "weights" -> {"setblock"}
      [] cmd = "validate" /\ pc = "setblock" -> {"top"}
      [] OTHER -> {}

\* The calls of one step return.  runner: HEARTBEAT = time.monotonic() after
\* get_current_block.  validate: subtensor = await get_subtensor() after
\* retry_set_weights.
LoopStep(next) ==
    /\ alive
    /\ next \in StepsAfter(lmode, lpc)
    /\ lpc' = next
    /\ heartbeat' = IF lmode = "runner" /\ lpc = "block" THEN now ELSE heartbeat
    /\ lsub' = IF lpc = "weights" THEN GetSubtensor ELSE lsub
    /\ UNCHANGED <<lmode, now, wdnext, alive, gsub, ginit, lfailed, lwake>>

\* A call of the step raises an exception.
LoopFails ==
    /\ alive
    /\ StepsAfter(lmode, lpc) # {}
    /\ Failed
    /\ UNCHANGED <<lmode, now, heartbeat, wdnext, alive, gsub, ginit>>

\* asyncio.sleep(10) ends; continue.
CooldownDone ==
    /\ alive
    /\ lpc = "cooldown"
    /\ now >= lwake
    /\ lpc' = "top"
    /\ UNCHANGED <<lmode, now, heartbeat, wdnext, alive, lsub, gsub, ginit, lfailed, lwake>>


(***************************************************************************)
(* _cache_shard for one key, step by step                                  *)
(***************************************************************************)
\* if out.exists() and stamp.exists(): the probe is issued, else the transfer.
Enter(f) ==
    /\ hpc[f] = "idle"
    /\ hpc' = [hpc EXCEPT ![f] =
                  IF hfile.exists /\ hstamp # NoStamp THEN "head" ELSE "get"]
    /\ UNCHANGED <<hremote, hfile, hstamp, htmp, hsnap, hover, hcrashed>>

\* head_object answers and its LastModified is compared with stamp.read_text():
\* equal, "return out" is reached; otherwise get_object is issued.
Probe(f) ==
    /\ hpc[f] = "head"
    /\ hstamp # NoStamp
    /\ hpc' = [hpc EXCEPT ![f] = IF hremote.lm = hstamp THEN "ret" ELSE "get"]
    /\ UNCHANGED <<hremote, hfile, hstamp, htmp, hsnap, hover, hcrashed>>

\* The with block has been left: out is returned to the caller.
ReturnCached(f) ==
    /\ hpc[f] = "ret"
    /\ hpc' = [hpc EXCEPT ![f] = "idle"]
    /\ UNCHANGED <<hremote, hfile, hstamp, htmp, hsnap, hover, hcrashed>>

\* get_object answers: body and lm are those of the object at that time.
Transfer(f) ==
    /\ hpc[f] = "get"
    /\ hsnap' = [hsnap EXCEPT ![f] = hremote]
    /\ hpc' = [hpc EXCEPT ![f] = "write"]
    /\ UNCHANGED <<hremote, hfile, hstamp, htmp, hover, hcrashed>>

\* stamp.write_text(lm): lm is the LastModified of the get_object answer.
StampText(f) == hsnap[f].lm

\* The process is gone: every coroutine with it.
AllIdle == [f \in Fetchers |-> "idle"]
NoSnaps == [f \in Fetchers |-> NoSnap]

\* tmp.write_bytes(...); os.replace(tmp, out); stamp.write_text(lm): the
\* with block has been left and no suspension point lies between the three.
WriteThrough(f) ==
    /\ hpc[f] = "write"
    /\ htmp' = NoFile
    /\ hfile' = FileOf(ToJsonl(hsnap[f].body))
    /\ hstamp' = StampText(f)
    /\ hpc' = [hpc EXCEPT ![f] = "idle"]
    /\ hsnap' = [hsnap EXCEPT ![f] = NoSnap]
    /\ UNCHANGED <<hremote, hover, hcrashed>>

\* The process dies while tmp.write_bytes is writing: tmp holds the first n
\* bytes, out and stamp are as they were.
CrashInWrite(f, n) ==
    /\ hpc[f] = "write"
    /\ n <= Len(ToJsonl(hsnap[f].body))
    /\ htmp' = FileOf(SubSeq(ToJsonl(hsnap[f].body), 1, n))
    /\ hpc' = AllIdle
    /\ hsnap' = NoSnaps
    /\ UNCHANGED <<hremote, hfile, hstamp, hover, hcrashed>>

\* The process dies after os.replace(tmp, out) and before stamp.write_text(lm).
CrashAfterReplace(f) ==
    /\ hpc[f] = "write"
    /\ htmp' = NoFile
    /\ hfile' = FileOf(ToJsonl(hsnap[f].body))
    /\ hpc' = AllIdle
    /\ hsnap' = NoSnaps
    /\ hcrashed' = TRUE
    /\ UNCHANGED <<hremote, hstamp, hover>>

\* A writer's sink overwrites the remote shard: new array, new LastModified.
Overwrite ==
    /\ hover < MaxOverwrites
    /\ hover' = hover + 1
    /\ hremote' = [body |-> BodyAt(hover + 1), lm |-> hremote.lm + 1]
    /\ UNCHANGED <<hfile, hstamp, htmp, hpc, hsnap, hcrashed>>

(***************************************************************************)
(* get_weights: prune(tail), then the keys dataset(tail) resolves          *)
(***************************************************************************)
\* await prune(tail=tail): for f in CACHE_DIR.glob("*.jsonl"): ... f.unlink()
CallPrune ==
    /\ ppc = "call"
    /\ pdeleted' = {k \in pcache : Evicts(k, pcur, ptail)}
    /\ pcache' = {k \in pcache : ~Evicts(k, pcur, ptail)}
    /\ ppc' = "pruned"
    /\ UNCHANGED <<pidx, pcur, ptail, premote, pkeys>>

\* async for c in dataset(tail=tail): keys = await _shard_keys(tail), at the
\* same current block.
ResolveAfterPrune ==
    /\ ppc = "pruned"
    /\ pkeys' = ShardKeysFor(pidx, pcur, ptail)
    /\ ppc' = "done"
    /\ UNCHANGED <<pidx, pcur, ptail, pcache, pdeleted, premote>>
(***************************************************************************)
(* Challenge(...)                                                          *)
(***************************************************************************)
\* The n-th Challenge is constructed.
Construct(n) ==
    /\ cid[n] = Unset
    /\ cid' = [cid EXCEPT ![n] = SetChallengeId(cargs[n].env, cargs[n].prompt,
                                                cargs[n].extra, cargs[n].challenge_id)]
    /\ UNCHANGED cargs

(***************************************************************************)
(* Result.sign, Result.verify, and what can be done to a stored Result     *)
(***************************************************************************)
\* r.sign(wallet)
SignResult(w) ==
    /\ gsigned.hotkey = ""
    /\ gres' = [gres EXCEPT !.hotkey = w,
                            !.signature = Hex(SignBytes(w, SignedData(gres)))]
    /\ gsigned' = gres'
    /\ gverdict' = "none"

\* r.verify()
VerifyResult ==
    /\ gverdict = "none"
    /\ gverdict' = Verify(gres)
    /\ UNCHANGED <<gres, gsigned>>

\* The text of the signature is written otherwise.
AlterText(t) ==
    /\ gsigned.hotkey # ""
    /\ gres.signature.text # t
    /\ gres' = [gres EXCEPT !.signature.text = t]
    /\ gverdict' = "none"
    /\ UNCHANGED gsigned

\* A hexadecimal digit of the signature is replaced by another.
AlterBytes ==
    /\ gsigned.hotkey # ""
    /\ gres' = [gres EXCEPT !.signature.bytes.tweak = 1 - @]
    /\ gverdict' = "none"
    /\ UNCHANGED gsigned

\* The signer identity is replaced.
ReplaceSigner(id) ==
    /\ gsigned.hotkey # ""
    /\ gres.hotkey # id
    /\ gres' = [gres EXCEPT !.hotkey = id]
    /\ gverdict' = "none"
    /\ UNCHANGED gsigned

\* Response, Evaluation or Miner are replaced.
ReplaceScoring(d) ==
    /\ gsigned.hotkey # ""
    /\ gres.scoring # d
    /\ gres' = [gres EXCEPT !.scoring = d]
    /\ gverdict' = "none"
    /\ UNCHANGED gsigned

\* The prompt of the Challenge is replaced.
ReplacePrompt(p) ==
    /\ gsigned.hotkey # ""
    /\ gres.challenge.prompt # p
    /\ gres' = [gres EXCEPT !.challenge.prompt = p]
    /\ gverdict' = "none"
    /\ UNCHANGED gsigned

(***************************************************************************)
(* Specifications                                                          *)
(***************************************************************************)
InitWeights == StartWeights /\ RestShards /\ InitQuery /\ InitSink /\ InitRun /\ RestKeys /\ RestChallenges /\ RestResult /\ RestLoop /\ InitCache /\ RestPrune

InitReplay == StartReplay /\ RestShards /\ InitQuery /\ InitSink /\ InitRun /\ RestKeys /\ RestChallenges /\ RestResult /\ RestLoop /\ InitCache /\ RestPrune

NextWeights ==
    \/ \E r \in Results : Yield(r) /\ UNCHANGED <<svars, qvars, ivars, rvars, kvars, cvars, gvars, lvars, hvars, pvars>>
    \/ EndStream /\ UNCHANGED <<svars, qvars, ivars, rvars, kvars, cvars, gvars, lvars, hvars, pvars>>
    \/ \E v \in active : Consume(v) /\ UNCHANGED <<svars, qvars, ivars, rvars, kvars, cvars, gvars, lvars, hvars, pvars>>
    \/ \E v \in active : Finish(v) /\ UNCHANGED <<svars, qvars, ivars, rvars, kvars, cvars, gvars, lvars, hvars, pvars>>

SpecWeights == InitWeights /\ [][NextWeights]_vars

SpecReplay == InitReplay /\ [][NextWeights]_vars

\* One iteration of the validate loop that has come to get_weights.
NextValidate ==
    \/ \E r \in Results : Yield(r) /\ UNCHANGED <<svars, qvars, ivars, rvars, kvars, cvars, gvars, lvars, hvars, pvars>>
    \/ EndStream /\ UNCHANGED <<svars, qvars, ivars, rvars, kvars, cvars, gvars, lvars, hvars, pvars>>
    \/ \E v \in active : Consume(v) /\ UNCHANGED <<svars, qvars, ivars, rvars, kvars, cvars, gvars, lvars, hvars, pvars>>
    \/ \E v \in active : Finish(v) /\ UNCHANGED <<svars, qvars, ivars, rvars, kvars, cvars, gvars, lvars, hvars, pvars>>
    \/ \E v \in active : SetWeights(v) /\ UNCHANGED <<svars, qvars, ivars, rvars, kvars, cvars, gvars, lvars, hvars, pvars>>
    \/ \E v \in active : GetWeightsFailed(v) /\ UNCHANGED <<svars, qvars, ivars, rvars, kvars, cvars, gvars, lvars, hvars, pvars>>

SpecValidate == InitWeights /\ [][NextValidate]_vars

InitStore == InitShards /\ StartWeights /\ InitQuery /\ InitSink /\ InitRun /\ RestKeys /\ RestChallenges /\ RestResult /\ RestLoop /\ InitCache /\ RestPrune

NextShards ==
    \/ \E K \in 1..MaxConc : CallPrefetch(K) /\ UNCHANGED <<wvars, qvars, ivars, rvars, kvars, cvars, gvars, lvars, hvars, pvars>>
    \/ \E K \in 1..MaxConc : CallDataset(K) /\ UNCHANGED <<wvars, qvars, ivars, rvars, kvars, cvars, gvars, lvars, hvars, pvars>>
    \/ \E k \in KeyIds : Acquire(k) /\ UNCHANGED <<wvars, qvars, ivars, rvars, kvars, cvars, gvars, lvars, hvars, pvars>>
    \/ \E k \in KeyIds : HeadDone(k) /\ UNCHANGED <<wvars, qvars, ivars, rvars, kvars, cvars, gvars, lvars, hvars, pvars>>
    \/ \E k \in KeyIds : GetDone(k) /\ UNCHANGED <<wvars, qvars, ivars, rvars, kvars, cvars, gvars, lvars, hvars, pvars>>
    \/ \E k \in KeyIds : TransferFail(k) /\ UNCHANGED <<wvars, qvars, ivars, rvars, kvars, cvars, gvars, lvars, hvars, pvars>>
    \/ PrefetchReturn /\ UNCHANGED <<wvars, qvars, ivars, rvars, kvars, cvars, gvars, lvars, hvars, pvars>>
    \/ PrefetchRaise /\ UNCHANGED <<wvars, qvars, ivars, rvars, kvars, cvars, gvars, lvars, hvars, pvars>>
    \/ DatasetAwait /\ UNCHANGED <<wvars, qvars, ivars, rvars, kvars, cvars, gvars, lvars, hvars, pvars>>
    \/ DatasetAwaitRaise /\ UNCHANGED <<wvars, qvars, ivars, rvars, kvars, cvars, gvars, lvars, hvars, pvars>>
    \/ IterLine /\ UNCHANGED <<wvars, qvars, ivars, rvars, kvars, cvars, gvars, lvars, hvars, pvars>>
    \/ NextShard /\ UNCHANGED <<wvars, qvars, ivars, rvars, kvars, cvars, gvars, lvars, hvars, pvars>>
    \/ \E k \in KeyIds : RemoteAppend(k) /\ UNCHANGED <<wvars, qvars, ivars, rvars, kvars, cvars, gvars, lvars, hvars, pvars>>

SpecShards == InitStore /\ [][NextShards]_vars

\* Streams of dataset over a store that does not change and whose transfers
\* succeed, each consumed to its end or dropped by the consumer at a yield.
NextStreams ==
    \/ \E K \in 1..MaxConc : CallDataset(K) /\ UNCHANGED <<wvars, qvars, ivars, rvars, kvars, cvars, gvars, lvars, hvars, pvars>>
    \/ \E k \in KeyIds : Acquire(k) /\ UNCHANGED <<wvars, qvars, ivars, rvars, kvars, cvars, gvars, lvars, hvars, pvars>>
    \/ \E k \in KeyIds : HeadDone(k) /\ UNCHANGED <<wvars, qvars, ivars, rvars, kvars, cvars, gvars, lvars, hvars, pvars>>
    \/ \E k \in KeyIds : GetDone(k) /\ UNCHANGED <<wvars, qvars, ivars, rvars, kvars, cvars, gvars, lvars, hvars, pvars>>
    \/ DatasetAwait /\ UNCHANGED <<wvars, qvars, ivars, rvars, kvars, cvars, gvars, lvars, hvars, pvars>>
    \/ IterLine /\ UNCHANGED <<wvars, qvars, ivars, rvars, kvars, cvars, gvars, lvars, hvars, pvars>>
    \/ NextShard /\ UNCHANGED <<wvars, qvars, ivars, rvars, kvars, cvars, gvars, lvars, hvars, pvars>>
    \/ DatasetClose /\ UNCHANGED <<wvars, qvars, ivars, rvars, kvars, cvars, gvars, lvars, hvars, pvars>>

SpecStreams == InitStore /\ [][NextStreams]_vars

InitDispatcher == InitQuery /\ StartWeights /\ RestShards /\ InitSink /\ InitRun /\ RestKeys /\ RestChallenges /\ RestResult /\ RestLoop /\ InitCache /\ RestPrune

NextQuery ==
    \/ \E p \in Pairs : \E r \in 0..MaxRetries : StartQuery(p, r) /\ UNCHANGED <<wvars, svars, ivars, rvars, kvars, cvars, gvars, lvars, hvars, pvars>>
    \/ \E p \in Pairs : EnterGate(p) /\ UNCHANGED <<wvars, svars, ivars, rvars, kvars, cvars, gvars, lvars, hvars, pvars>>
    \/ \E p \in Pairs : AcquireGate(p) /\ UNCHANGED <<wvars, svars, ivars, rvars, kvars, cvars, gvars, lvars, hvars, pvars>>
    \/ \E p \in Pairs : \E o \in Outcomes : Complete(p, o) /\ UNCHANGED <<wvars, svars, ivars, rvars, kvars, cvars, gvars, lvars, hvars, pvars>>
    \/ \E p \in Pairs : BackoffDone(p) /\ UNCHANGED <<wvars, svars, ivars, rvars, kvars, cvars, gvars, lvars, hvars, pvars>>
    \/ NewLoop /\ UNCHANGED <<wvars, svars, ivars, rvars, kvars, cvars, gvars, lvars, hvars, pvars>>

SpecQuery == InitDispatcher /\ [][NextQuery]_vars

\* Each pair is queried once per event loop.
NextQueryOnce ==
    \/ \E p \in Pairs : \E r \in 0..MaxRetries :
          qpc[p] = "idle" /\ StartQuery(p, r) /\ UNCHANGED <<wvars, svars, ivars, rvars, kvars, cvars, gvars, lvars, hvars, pvars>>
    \/ \E p \in Pairs : EnterGate(p) /\ UNCHANGED <<wvars, svars, ivars, rvars, kvars, cvars, gvars, lvars, hvars, pvars>>
    \/ \E p \in Pairs : AcquireGate(p) /\ UNCHANGED <<wvars, svars, ivars, rvars, kvars, cvars, gvars, lvars, hvars, pvars>>
    \/ \E p \in Pairs : \E o \in Outcomes : Complete(p, o) /\ UNCHANGED <<wvars, svars, ivars, rvars, kvars, cvars, gvars, lvars, hvars, pvars>>
    \/ \E p \in Pairs : BackoffDone(p) /\ UNCHANGED <<wvars, svars, ivars, rvars, kvars, cvars, gvars, lvars, hvars, pvars>>
    \/ NewLoop /\ UNCHANGED <<wvars, svars, ivars, rvars, kvars, cvars, gvars, lvars, hvars, pvars>>

\* A step of a call of query that is in progress.
QueryStep ==
    /\ \E p \in Pairs :
          \/ EnterGate(p)
          \/ AcquireGate(p)
          \/ \E o \in Outcomes : Complete(p, o)
          \/ BackoffDone(p)
    /\ UNCHANGED <<wvars, svars, ivars, rvars, kvars, cvars, gvars, lvars, hvars, pvars>>

\* The event loop runs a task that is ready; an HTTP call ends, at the
\* latest by its timeout; a sleep ends.
SpecQueryFair == InitDispatcher /\ [][NextQueryOnce]_vars /\ WF_vars(QueryStep)

InitBucket == InitSink /\ StartWeights /\ RestShards /\ InitQuery /\ InitRun /\ RestKeys /\ RestChallenges /\ RestResult /\ RestLoop /\ InitCache /\ RestPrune

NextSink ==
    \/ \E i \in Slots : \E hk \in Wallets : \E n \in ResultCounts : \E b \in BlockArgs :
          StartSink(i, hk, n, b) /\ UNCHANGED <<wvars, svars, qvars, rvars, kvars, cvars, gvars, lvars, hvars, pvars>>
    \/ \E i \in Slots : SinkGet(i) /\ UNCHANGED <<wvars, svars, qvars, rvars, kvars, cvars, gvars, lvars, hvars, pvars>>
    \/ \E i \in Slots : SinkPut(i) /\ UNCHANGED <<wvars, svars, qvars, rvars, kvars, cvars, gvars, lvars, hvars, pvars>>
    \/ \E i \in Slots : IndexGet(i) /\ UNCHANGED <<wvars, svars, qvars, rvars, kvars, cvars, gvars, lvars, hvars, pvars>>
    \/ \E i \in Slots : IndexPut(i) /\ UNCHANGED <<wvars, svars, qvars, rvars, kvars, cvars, gvars, lvars, hvars, pvars>>
    \/ \E i \in Slots : SinkFail(i) /\ UNCHANGED <<wvars, svars, qvars, rvars, kvars, cvars, gvars, lvars, hvars, pvars>>

SpecSink == InitBucket /\ [][NextSink]_vars

InitBatch == InitRun /\ StartWeights /\ RestShards /\ InitQuery /\ InitSink /\ RestKeys /\ RestChallenges /\ RestResult /\ RestLoop /\ InitCache /\ RestPrune

NextRun ==
    \/ \E order \in MinerOrders : \E hasModel \in [Uids -> BOOLEAN] : \E n \in 1..NumChallenges :
          CallRun(order, hasModel, n) /\ UNCHANGED <<wvars, svars, qvars, ivars, kvars, cvars, gvars, lvars, hvars, pvars>>
    \/ \E t \in 1..Len(rtasks) : QueryReturns(t) /\ UNCHANGED <<wvars, svars, qvars, ivars, kvars, cvars, gvars, lvars, hvars, pvars>>
    \/ \E t \in 1..Len(rtasks) : \E s \in EvalScores :
          EvaluateReturns(t, s) /\ UNCHANGED <<wvars, svars, qvars, ivars, kvars, cvars, gvars, lvars, hvars, pvars>>
    \/ \E t \in 1..Len(rtasks) : EvaluateRaises(t) /\ UNCHANGED <<wvars, svars, qvars, ivars, kvars, cvars, gvars, lvars, hvars, pvars>>
    \/ \E t \in 1..Len(rtasks) : TaskRaises(t) /\ UNCHANGED <<wvars, svars, qvars, ivars, kvars, cvars, gvars, lvars, hvars, pvars>>
    \/ GatherEnds /\ UNCHANGED <<wvars, svars, qvars, ivars, kvars, cvars, gvars, lvars, hvars, pvars>>

SpecRun == InitBatch /\ [][NextRun]_vars

InitDiscovery == InitKeys /\ StartWeights /\ RestShards /\ InitQuery /\ InitSink /\ InitRun /\ RestChallenges /\ RestResult /\ RestLoop /\ InitCache /\ RestPrune

NextKeys ==
    CallShardKeys /\ UNCHANGED <<wvars, svars, qvars, ivars, rvars, cvars, gvars, lvars, hvars, pvars>>

SpecKeys == InitDiscovery /\ [][NextKeys]_vars

InitIds == InitChallenges /\ StartWeights /\ RestShards /\ InitQuery /\ InitSink /\ InitRun /\ RestKeys /\ RestResult /\ RestLoop /\ InitCache /\ RestPrune

NextIds ==
    \E n \in 1..2 : Construct(n) /\ UNCHANGED <<wvars, svars, qvars, ivars, rvars, kvars, gvars, lvars, hvars, pvars>>

SpecIds == InitIds /\ [][NextIds]_vars

InitEnvelope == InitResult /\ StartWeights /\ RestShards /\ InitQuery /\ InitSink /\ InitRun /\ RestKeys /\ RestChallenges /\ RestLoop /\ InitCache /\ RestPrune

NextSign ==
    \/ \E w \in Wallets : SignResult(w) /\ UNCHANGED <<wvars, svars, qvars, ivars, rvars, kvars, cvars, lvars, hvars, pvars>>
    \/ VerifyResult /\ UNCHANGED <<wvars, svars, qvars, ivars, rvars, kvars, cvars, lvars, hvars, pvars>>
    \/ \E t \in Texts : AlterText(t) /\ UNCHANGED <<wvars, svars, qvars, ivars, rvars, kvars, cvars, lvars, hvars, pvars>>
    \/ AlterBytes /\ UNCHANGED <<wvars, svars, qvars, ivars, rvars, kvars, cvars, lvars, hvars, pvars>>
    \/ \E id \in Wallets : ReplaceSigner(id) /\ UNCHANGED <<wvars, svars, qvars, ivars, rvars, kvars, cvars, lvars, hvars, pvars>>
    \/ \E d \in Scorings : ReplaceScoring(d) /\ UNCHANGED <<wvars, svars, qvars, ivars, rvars, kvars, cvars, lvars, hvars, pvars>>
    \/ \E p \in SignedPrompts : ReplacePrompt(p) /\ UNCHANGED <<wvars, svars, qvars, ivars, rvars, kvars, cvars, lvars, hvars, pvars>>

SpecSign == InitEnvelope /\ [][NextSign]_vars

InitCommand == InitLoop /\ StartWeights /\ RestShards /\ InitQuery /\ InitSink /\ InitRun /\ RestKeys /\ RestChallenges /\ RestResult /\ InitCache /\ RestPrune

NextLoop ==
    \/ Tick /\ UNCHANGED <<wvars, svars, qvars, ivars, rvars, kvars, cvars, gvars, hvars, pvars>>
    \/ WatchdogCheck /\ UNCHANGED <<wvars, svars, qvars, ivars, rvars, kvars, cvars, gvars, hvars, pvars>>
    \/ LoopTop /\ UNCHANGED <<wvars, svars, qvars, ivars, rvars, kvars, cvars, gvars, hvars, pvars>>
    \/ Connect /\ UNCHANGED <<wvars, svars, qvars, ivars, rvars, kvars, cvars, gvars, hvars, pvars>>
    \/ \E assigned \in BOOLEAN :
          ConnectFails(assigned) /\ UNCHANGED <<wvars, svars, qvars, ivars, rvars, kvars, cvars, gvars, hvars, pvars>>
    \/ \E next \in {"block", "work", "top", "prefetch", "weights", "setblock"} :
          LoopStep(next) /\ UNCHANGED <<wvars, svars, qvars, ivars, rvars, kvars, cvars, gvars, hvars, pvars>>
    \/ LoopFails /\ UNCHANGED <<wvars, svars, qvars, ivars, rvars, kvars, cvars, gvars, hvars, pvars>>
    \/ CooldownDone /\ UNCHANGED <<wvars, svars, qvars, ivars, rvars, kvars, cvars, gvars, hvars, pvars>>

SpecLoop == InitCommand /\ [][NextLoop]_vars

InitCoherence == InitCache /\ StartWeights /\ RestShards /\ InitQuery /\ InitSink /\ InitRun /\ RestKeys /\ RestChallenges /\ RestResult /\ RestLoop /\ RestPrune

NextCoherence ==
    \/ \E f \in Fetchers : Enter(f) /\ UNCHANGED <<wvars, svars, qvars, ivars, rvars, kvars, cvars, gvars, lvars, pvars>>
    \/ \E f \in Fetchers : Probe(f) /\ UNCHANGED <<wvars, svars, qvars, ivars, rvars, kvars, cvars, gvars, lvars, pvars>>
    \/ \E f \in Fetchers : ReturnCached(f) /\ UNCHANGED <<wvars, svars, qvars, ivars, rvars, kvars, cvars, gvars, lvars, pvars>>
    \/ \E f \in Fetchers : Transfer(f) /\ UNCHANGED <<wvars, svars, qvars, ivars, rvars, kvars, cvars, gvars, lvars, pvars>>
    \/ \E f \in Fetchers : WriteThrough(f) /\ UNCHANGED <<wvars, svars, qvars, ivars, rvars, kvars, cvars, gvars, lvars, pvars>>
    \/ \E f \in Fetchers : \E n \in 0..(2 * MaxOverwrites + 2) : CrashInWrite(f, n) /\ UNCHANGED <<wvars, svars, qvars, ivars, rvars, kvars, cvars, gvars, lvars, pvars>>
    \/ \E f \in Fetchers : CrashAfterReplace(f) /\ UNCHANGED <<wvars, svars, qvars, ivars, rvars, kvars, cvars, gvars, lvars, pvars>>
    \/ Overwrite /\ UNCHANGED <<wvars, svars, qvars, ivars, rvars, kvars, cvars, gvars, lvars, pvars>>

SpecCoherence == InitCoherence /\ [][NextCoherence]_vars

InitEviction == InitPrune /\ StartWeights /\ RestShards /\ InitQuery /\ InitSink /\ InitRun /\ RestKeys /\ RestChallenges /\ RestResult /\ RestLoop /\ InitCache

NextPrune ==
    \/ CallPrune /\ UNCHANGED <<wvars, svars, qvars, ivars, rvars, kvars, cvars, gvars, lvars, hvars>>
    \/ ResolveAfterPrune /\ UNCHANGED <<wvars, svars, qvars, ivars, rvars, kvars, cvars, gvars, lvars, hvars>>

SpecPrune == InitEviction /\ [][NextPrune]_vars
(***************************************************************************)
(* Properties of the weight engine                                         *)
(***************************************************************************)
Returned(v) == v \in active /\ wpc[v] = "done"

\* The identities with at least one counted Result (the keys of prev).
Observed(v) == Range(prevOrder[v])

C4_Winner ==
    \A v \in Validators : Returned(v) =>
        LET o == out[v] IN
        /\ o.best \in Observed(v)
        /\ \A h \in Observed(v) :
              /\ o.dom[h] <= o.dom[o.best]
              /\ o.dom[h] = o.dom[o.best]
                    => prev[v][o.best].block <= prev[v][h].block
        /\ ( /\ Observed(v) = {"A", "B"}
             /\ {p \in o.pairs : p[1] \in {"A", "B"}} = {<<"A", "C">>, <<"B", "C">>}
             /\ prev[v]["A"].block # prev[v]["B"].block )
           => o.best = (IF prev[v]["A"].block < prev[v]["B"].block THEN "A" ELSE "B")

\* A and B each dominate only C, A was counted first but committed at the
\* later block, and B is the winner.
C4_Witness ==
    /\ Returned(1)
    /\ out[1].pairs = {<<"A", "C">>, <<"B", "C">>}
    /\ prevOrder[1] = <<"A", "B">>
    /\ prev[1]["A"].block = 2 /\ prev[1]["B"].block = 1
    /\ out[1].best = "B" /\ out[1].best_uid = 1

\* The accuracy of h in e as the quotient succ/cnt (0 when there is no trial),
\* compared by cross-multiplication.
AccNum(v, h, e) == IF cnt[v][h][e] # 0 THEN succ[v][h][e] ELSE 0
AccDen(v, h, e) == IF cnt[v][h][e] # 0 THEN cnt[v][h][e] ELSE 1
AccGreater(v, g, h, e) == AccNum(v, g, e) * AccDen(v, h, e) > AccNum(v, h, e) * AccDen(v, g, e)
AccEqual(v, g, h, e) == AccNum(v, g, e) * AccDen(v, h, e) = AccNum(v, h, e) * AccDen(v, g, e)

\* Representatives of the distinct accuracy values of environment e.
AccClasses(v, e) ==
    {h \in HotkeySet : \A g \in HotkeySet : AccEqual(v, g, h, e) => IndexOf(h) <= IndexOf(g)}

\* C5: in every environment the ranks are the dense rank of the accuracies in
\* descending order: equal accuracies share a rank, a strictly lower accuracy
\* has a strictly larger rank, and the ranks used are exactly 1..k for k
\* distinct accuracy values (so the highest accuracy has rank 1).
C5_DenseRank ==
    \A v \in Validators : Returned(v) =>
        \A e \in EnvSet :
            LET r == out[v].ranks[e] IN
            /\ \A g, h \in HotkeySet :
                  /\ AccEqual(v, g, h, e) => r[g] = r[h]
                  /\ AccGreater(v, g, h, e) => r[g] < r[h]
            /\ {r[h] : h \in HotkeySet} = 1..Cardinality(AccClasses(v, e))

\* A and B tie on the highest accuracy of an environment and C is below them:
\* the ranks are 1, 1, 2.
C5_Witness ==
    /\ Returned(1)
    /\ \E e \in EnvSet :
          /\ AccEqual(1, "A", "B", e) /\ AccGreater(1, "A", "C", e)
          /\ out[1].ranks[e] = [h \in HotkeySet |-> IF h = "C" THEN 2 ELSE 1]

\* C6: the dominance relation computed by get_weights is asymmetric.
C6_Asymmetric ==
    \A v \in Validators : Returned(v) =>
        \A a, b \in HotkeySet : ~(<<a, b>> \in out[v].pairs /\ <<b, a>> \in out[v].pairs)

\* A dominates B while they tie in one environment.
C6_Witness ==
    /\ Returned(1)
    /\ <<"A", "B">> \in out[1].pairs
    /\ \E e \in EnvSet : out[1].ranks[e]["A"] = out[1].ranks[e]["B"]

\* The naming convention the identities' model ids must match: "<org>/<name>"
\* with a name that starts with "affine" in any letter case.
MatchesConvention(m) ==
    /\ HasSlash(m)
    /\ StartsWith(Lower(Split1(m)[2]), AffinePrefix)

\* C7: when a Result of a registered identity with a matching model id arrives for an identity whose recorded previous
\* Miner has a different (block, model, revision), the sum of (identity, env)
\* becomes the new score alone; otherwise the score is added to the sum; in
\* both cases the count of (identity, env) grows by one, never reset, and the
\* sums and counts of every other (identity, env) are unchanged; the Result
\* becomes the identity's previous record.
C7_Reset ==
    [][ \A v \in Validators : \A c \in Results :
          (ConsumeResult(v, c) /\ c.miner.hotkey \in HotkeySet
             /\ MatchesConvention(c.miner.model))
          => LET hk == c.miner.hotkey
                 p  == prev[v][hk]
                 changed == /\ hk \in Observed(v)
                            /\ <<p.block, p.model, p.revision>>
                                  # <<c.miner.block, c.miner.model, c.miner.revision>>
             IN  /\ succ'[v][hk][c.env] =
                        (IF changed THEN 0 ELSE succ[v][hk][c.env]) + c.score
                 /\ cnt'[v][hk][c.env] = cnt[v][hk][c.env] + 1
                 /\ prev'[v][hk] = c.miner
                 /\ \A h \in HotkeySet : \A e \in EnvSet :
                        <<h, e>> # <<hk, c.env>>
                           => /\ succ'[v][h][e] = succ[v][h][e]
                              /\ cnt'[v][h][e] = cnt[v][h][e]
      ]_vars

\* The third Result made A's second trial in an environment and reset its
\* sum (A recommitted at block 2): the count is 2 and the sum is the last
\* score alone.
C7_Witness ==
    /\ branch[1] = "reset"
    /\ \E e \in EnvSet : cnt[1]["A"][e] = 2 /\ succ[1]["A"][e] = 0
    /\ \E e \in EnvSet : cnt[1]["A"][e] = 0
    /\ prev[1]["A"].block = 2
    /\ yielded = 3

\* C8: a Result whose identity is not registered or whose model id does not
\* match the naming convention is skipped: sums, counts and the previous
\* record are unchanged and get_weights goes on with the next Result.
C8_SkipNeverAborts ==
    [][ \A v \in Validators : \A c \in Results :
          (ConsumeResult(v, c)
             /\ (c.miner.hotkey \notin HotkeySet \/ ~MatchesConvention(c.miner.model)))
          => /\ UNCHANGED <<cnt, succ, prev, prevOrder>>
             /\ wpc'[v] = "run"
      ]_vars

\* a is at least as accurate as b in every environment and more accurate in
\* at least one.
ParetoDominates(v, a, b) ==
    /\ \A e \in EnvSet : ~AccGreater(v, b, a, e)
    /\ \E e \in EnvSet : AccGreater(v, a, b, e)

\* C37: with scores that are not negative, no registered identity, observed
\* or not, dominates the winner get_weights returns; and whenever a dominates
\* b the dominance count of a is greater than that of b.
C37_WinnerUndominated ==
    \A v \in Validators : Returned(v) =>
        /\ \A a \in HotkeySet : ~ParetoDominates(v, a, out[v].best)
        /\ \A a \in HotkeySet : \A b \in HotkeySet :
              ParetoDominates(v, a, b) => out[v].dom[a] > out[v].dom[b]

\* A dominates B, both observed, B committed at the lower block and was
\* counted first, C has no Result; the winner is A.
C37_Witness ==
    /\ Returned(1)
    /\ prevOrder[1] = <<"B", "A">>
    /\ ParetoDominates(1, "A", "B")
    /\ prev[1]["B"].block < prev[1]["A"].block
    /\ out[1].dom["B"] = 0
    /\ out[1].best = "A"

\* The Results of the stream that were counted for h.
Counted(v, h) == cnt[v][h]["SAT"] + cnt[v][h]["ABD"]

\* C38: when get_weights returns, the winner is a registered identity with at
\* least one counted Result and the uid is its position in the registered
\* list; when the stream ends with no counted Result get_weights raises; the
\* validate iteration calls retry_set_weights with the returned uid, and
\* does not call it when get_weights raised.
C38_WinnerOrError ==
    \A v \in active :
        /\ Returned(v) =>
              /\ out[v].best \in HotkeySet
              /\ Counted(v, out[v].best) >= 1
              /\ out[v].best_uid \in 0..(Len(Hotkeys) - 1)
              /\ Hotkeys[out[v].best_uid + 1] = out[v].best
        /\ (wpc[v] # "run" /\ \A h \in HotkeySet : Counted(v, h) = 0) => wpc[v] = "error"
        /\ wset[v].state = "set" => Returned(v) /\ wset[v].uid = out[v].best_uid
        /\ wpc[v] = "error" => wset[v].state \in {"none", "failed"}

\* get_weights returned the second identity of the list, counted after a
\* skipped Result, and the iteration submitted uid 1.
C38_Witness ==
    /\ Returned(1)
    /\ yielded >= 2
    /\ Counted(1, "A") + Counted(1, "B") + Counted(1, "C") < yielded
    /\ out[1].best = "B"
    /\ wset[1] = SetTo(1)

\* The stream ended with Results but none counted: get_weights raised and the
\* iteration went to its except clause.
C38_NoWinner ==
    /\ closed /\ yielded >= 1
    /\ \A h \in HotkeySet : Counted(1, h) = 0
    /\ wpc[1] = "error"
    /\ wset[1] = NoneSet

(***************************************************************************)
(* Properties of the shard cache and the result stream                     *)
(***************************************************************************)
\* The position of a yielded Result in the store: (shard key, array index).
Before(x, y) == x.shard < y.shard \/ (x.shard = y.shard /\ x.idx < y.idx)

Ascending(s) == \A i \in 1..Len(s) : \A j \in 1..Len(s) : i < j => s[i] < s[j]

\* C1: dataset yields in a deterministic order: the resolved keys are taken
\* in ascending key order, every yielded line of a shard comes before every
\* yielded line of the next shards, and the lines of one shard come in the
\* order of the shard array, whatever the order in which the fetches complete.
C1_Ordered ==
    mode = "dataset" =>
        /\ Ascending(keys)
        /\ \A i \in 1..Len(ystream) : \A j \in 1..Len(ystream) :
              i < j => Before(ystream[i], ystream[j])

\* A dataset call has ended after yielding Results of several shards although
\* the index listed the keys unsorted and the fetch of a later shard
\* completed before the fetch of an earlier one.
C1_Witness ==
    /\ mode = "dataset" /\ phase = "done"
    /\ ~Ascending(indexOrder)
    /\ ~Ascending(completion)
    /\ \E i \in 1..Len(ystream) : \E j \in 1..Len(ystream) :
          ystream[i].shard < ystream[j].shard

RECURSIVE ConcatFiles(_)
ConcatFiles(ks) == IF ks = <<>> THEN <<>> ELSE file[Head(ks)] \o ConcatFiles(Tail(ks))

\* The decodable, verifying entries of the cache files of the keys, in order.
OkEntries(ks) == SelectSeq(ConcatFiles(ks), LAMBDA x : x.kind = "ok")

\* C2: a line that does not decode or does not verify (verify() false or
\* raising) is skipped without an error: only verifying Results are
\* yielded, dataset fails only when a fetch failed, and a dataset call that
\* ends has yielded every decodable, verifying line of every shard.
C2_SkipBadLines ==
    mode = "dataset" =>
        /\ \A i \in 1..Len(ystream) : ystream[i].kind = "ok"
        /\ phase = "error" => \E k \in KeyIds : task[k] = "failed"
        /\ phase = "done" => ystream = OkEntries(keys)

\* A dataset call has ended; it yielded the second entry of a shard whose
\* first entry does not decode or makes verify() raise, and after it a Result
\* of a later shard, and some shard holds a forged entry.
C2_Witness ==
    /\ mode = "dataset" /\ phase = "done"
    /\ \E i \in 1..Len(ystream) :
          /\ ystream[i].idx = 2
          /\ remote[ystream[i].shard].body[1].kind \in {"undecodable", "badhex"}
          /\ \E j \in 1..Len(ystream) : ystream[i].shard < ystream[j].shard
    /\ \E k \in KeyIds : \E j \in 1..Len(remote[k].body) :
          remote[k].body[j].kind = "forged"

\* C9: during prefetch and dataset the number of tasks performing a remote
\* operation (the probe or the transfer) never exceeds max_concurrency.
C9_Bounded ==
    mode # "idle" => Cardinality(InFlight) <= limit

\* prefetch with as many remote operations in progress as the limit allows
\* while another task waits for the semaphore.
C9_Witness ==
    /\ mode = "prefetch"
    /\ limit < NumShards
    /\ Cardinality(InFlight) = limit
    /\ \E k \in KeyIds : task[k] = "wait"


\* C11: starting with no local copy, two calls of _cache_shard in sequence
\* for a remote shard that does not change perform exactly one full transfer
\* (the first call, with no probe) and exactly one metadata probe (the
\* second call, with no transfer).
C11_TransferThenProbe ==
    \A k \in KeyIds :
        (task[k] = "done" /\ writes = 0 /\ failures = 0) =>
            /\ calls = 1 => ops[k] = <<"get">>
            /\ calls >= 2 => ops[k] = <<"head">>

\* The second call in sequence has returned the cached path of every shard
\* after probing it; no shard changed and no operation failed.
C11_Witness ==
    /\ calls = 2 /\ writes = 0 /\ failures = 0
    /\ \A k \in KeyIds : task[k] = "done" /\ ops[k] = <<"head">> /\ cached[k]

\* The position of key k in the resolved key list.
KeyPos(k) == CHOOSE i \in 1..Len(keys) : keys[i] = k

\* C31: a remote operation of _cache_shard that raises is neither retried
\* nor swallowed: the task fails after the one operation it had in progress,
\* the local file and the stamp of its key are as they were, the semaphore
\* slot it held is free again (the free slots are the limit minus the
\* operations in progress), prefetch's gather does not return normally, and
\* dataset never gets past the await of that shard.
C31_ErrorPropagates ==
    /\ [](mode # "idle" =>
            /\ sem = limit - Cardinality(InFlight)
            /\ \A k \in KeyIds : task[k] = "failed" =>
                  /\ ops[k] \in {<<"get">>, <<"head">>, <<"head", "get">>}
                  /\ mode = "prefetch" => phase \in {"gather", "error"}
                  /\ (mode = "dataset" /\ phase # "closed") =>
                        \/ di < KeyPos(k)
                        \/ di = KeyPos(k) /\ phase \in {"await", "error"})
    /\ [][\A k \in KeyIds : TransferFail(k) =>
            /\ task'[k] = "failed"
            /\ ops'[k] = ops[k]
            /\ cached'[k] = cached[k] /\ file'[k] = file[k] /\ stamp'[k] = stamp[k]
         ]_vars

\* With a limit of one, the transfer of a stale cached shard failed (its file
\* and stamp are those of the earlier call) and the fetch of the next key
\* has taken the semaphore after it.
C31_Witness ==
    /\ limit = 1 /\ calls = 2
    /\ \E k \in KeyIds : \E j \in KeyIds :
          /\ task[k] = "failed" /\ ops[k] = <<"head", "get">>
          /\ cached[k] /\ stamp[k] # remote[k].lm
          /\ task[j] \in {"head", "get"}

Min(a, b) == IF a < b THEN a ELSE b

\* The positions, in the resolved key list, of the keys whose fetch has been
\* started by the call in progress.
StartedPos == {i \in 1..Len(keys) : task[keys[i]] # "none"}

\* The number of "await tasks[i]" that have returned.
AwaitsReturned == IF phase \in {"await", "error"} THEN di - 1 ELSE di

\* C34: dataset with n resolved keys and limit K starts the fetches of the
\* first min(n, K) keys up front and one more, of the next key in sorted
\* order that is not started, each time an await returns; no fetch is
\* started twice within a call; the i-th await is of the i-th sorted key;
\* the fetches started and not yet awaited to their end are at most K.
C34_Pipelined ==
    /\ []((mode = "dataset" /\ phase # "closed") =>
            /\ StartedPos = 1..Min(Len(keys), limit + AwaitsReturned)
            /\ Cardinality(StartedPos) - AwaitsReturned <= limit
            /\ keys = SortKeys(indexOrder)
            /\ phase = "iter" =>
                  \E n \in 0..Len(file[SortKeys(indexOrder)[di]]) :
                      \E pre \in {SubSeq(FileLines(file[SortKeys(indexOrder)[di]]), 1, n)} :
                          pre \o dlines = FileLines(file[SortKeys(indexOrder)[di]]))
    /\ [][
            /\ \A K \in 1..MaxConc : CallDataset(K) =>
                  {k \in KeyIds : task'[k] # "none"}
                      = {SortKeys(indexOrder)[i] : i \in 1..Min(Len(indexOrder), K)}
            /\ DatasetAwait =>
                  {k \in KeyIds : task'[k] # task[k]}
                      = {SortKeys(indexOrder)[i] :
                            i \in {j \in 1..Len(keys) :
                                     /\ j \notin StartedPos
                                     /\ \A h \in 1..(j - 1) : h \in StartedPos}}
            /\ \A k \in KeyIds :
                  (task[k] \notin {"none", "wait"} /\ task'[k] = "wait") => calls' = calls + 1
         ]_vars

\* A dataset call with a limit below the number of keys has ended: the last
\* key was started when the await of the first shard returned, and each
\* shard was fetched once.
C34_Witness ==
    /\ mode = "dataset" /\ phase = "done"
    /\ limit < Len(keys)
    /\ StartedPos = 1..Len(keys)
    /\ \A k \in KeyIds : task[k] = "done" /\ Len(ops[k]) = 1
    /\ Len(ystream) >= 2

\* How far a stream of dataset is from its end: the keys after the one in
\* progress, the position within the loop body, the lines left in the file.
PhaseRank == CASE phase = "await" -> 2 [] phase = "iter" -> 1 [] OTHER -> 0
StreamRank == <<Len(keys) - di, PhaseRank, Len(dlines)>>

RankLess(x, y) ==
    \/ x[1] < y[1]
    \/ x[1] = y[1] /\ x[2] < y[2]
    \/ x[1] = y[1] /\ x[2] = y[2] /\ x[3] < y[3]

\* C33: a stream of dataset is finite and restartable.  The keys are
\* resolved once, at the call; every step of the stream brings it nearer to
\* its end; with all transfers succeeding the stream ends exactly when the
\* last line of the last resolved shard has been consumed, having yielded
\* the verifying entries of the stored shards in order; a new call starts
\* from the first key with nothing yielded, whether or not an earlier stream
\* was dropped before its end.
C33_FiniteRestartable ==
    /\ []((mode = "dataset" /\ phase = "done") =>
            /\ di = Len(keys) /\ dlines = <<>>
            /\ \A k \in KeyIds : file[k] = ToJsonl(remote[k].body)
            /\ ystream = OkEntries(SortKeys(indexOrder)))
    /\ [][
            /\ calls' = calls => keys' = keys
            /\ (DatasetAwait \/ IterLine \/ NextShard) => RankLess(StreamRank', StreamRank)
            /\ (mode = "dataset" /\ phase' = "done" /\ phase # "done") =>
                  di = Len(keys) /\ dlines = <<>> /\ phase = "iter"
            /\ \A K \in 1..MaxConc : CallDataset(K) =>
                  /\ keys' = SortKeys(indexOrder)
                  /\ di' = 1 /\ ystream' = <<>> /\ dlines' = <<>>
         ]_vars

\* The first stream was dropped after it had yielded a Result; the second one
\* has ended and yielded the Results of every shard.
C33_Witness ==
    /\ calls = 2 /\ closes = 1
    /\ mode = "dataset" /\ phase = "done"
    /\ ystream = OkEntries(keys)
    /\ \E i \in 1..Len(ystream) : \E j \in 1..Len(ystream) :
          ystream[i].shard < ystream[j].shard
(***************************************************************************)
(* Properties of the query dispatcher                                      *)
(***************************************************************************)
\* C10: within one event loop, over all concurrent query() calls and all
\* their attempts, the number of inference HTTP calls in flight never
\* exceeds the configured HTTP concurrency limit.
C10_HttpBounded == Cardinality(HttpInFlight) <= HttpConcurrency

\* The limit is reached in the second event loop, one of the calls in flight
\* is a retry, and another call waits for the semaphore.
C10_Witness ==
    /\ loop = 2
    /\ Cardinality(HttpInFlight) = HttpConcurrency
    /\ \E p \in HttpInFlight : qattempt[p] = 2
    /\ \E p \in Pairs : qpc[p] = "waiting"


\* C15: an attempt whose status is 400, 404 or 410 ends the call at once with
\* success = false and attempts = the attempt it happened on: no backoff and
\* no further attempt follow, whatever retries is.
C15_TerminalShortCircuit ==
    [][\A p \in Pairs : \A o \in Outcomes :
          (Complete(p, o) /\ o.fault = "none" /\ o.status \in {400, 404, 410}) =>
              /\ qpc'[p] = "returned"
              /\ qresp'[p].success = FALSE
              /\ qresp'[p].attempts = qattempt[p]
              /\ qsent[p] = qattempt[p]]_vars

\* A call has returned on a terminal status of its first attempt, another on
\* a terminal status of its second attempt.
C15_Witness ==
    /\ \E p \in Pairs :
          qpc[p] = "returned" /\ qresp[p].error = "terminal" /\ qresp[p].attempts = 1
    /\ \E p \in Pairs :
          qpc[p] = "returned" /\ qresp[p].error = "terminal" /\ qresp[p].attempts = 2

Running(p) == qpc[p] \in {"attempt", "waiting", "inflight", "backoff"}

\* C16: for retries >= 0 query ends with a Response after at most
\* retries + 1 attempts: a non-terminal failure is followed by a backoff and
\* another attempt while the attempts made are <= retries, the first
\* successful attempt returns success = true, exhaustion returns
\* success = false, the attempts field is the number of HTTP calls made, and
\* every call that was started comes to its end.
C16_BoundedRetries ==
    /\ [](\A p \in Pairs :
            Running(p) => qattempt[p] >= 1 /\ qattempt[p] <= qretries[p] + 1
                          /\ qsent[p] <= qattempt[p])
    /\ [][\A p \in Pairs : \A o \in Outcomes :
            Complete(p, o) =>
               /\ AttemptResult(o) = "ok" =>
                    qpc'[p] = "returned" /\ qresp'[p].success
               /\ (AttemptResult(o) = "raise" /\ qsent[p] <= qretries[p]) =>
                    qpc'[p] = "backoff"
               /\ (AttemptResult(o) = "raise" /\ qsent[p] > qretries[p]) =>
                    qpc'[p] = "returned" /\ ~qresp'[p].success
               /\ qpc'[p] = "returned" =>
                    qresp'[p].attempts = qsent[p] /\ qsent[p] <= qretries[p] + 1]_vars
    /\ <>[](\A p \in Pairs : ~Running(p))

\* A call has returned a failure after two attempts (retries exhausted),
\* another has succeeded on its second attempt.
C16_Witness ==
    /\ \E p \in Pairs :
          qpc[p] = "returned" /\ qresp[p].error = "exception" /\ qresp[p].attempts = 2
    /\ \E p \in Pairs :
          qpc[p] = "returned" /\ qresp[p].success /\ qresp[p].attempts = 2

\* The calls of query() whose HTTP call is in flight under semaphore s.
HoldersOf(s) == {p \in Pairs : qpc[p] = "inflight" /\ qgate[p] = s}

\* C39: a slot of the HTTP semaphore is held exactly by the calls whose HTTP
\* attempt is in flight: the free slots of every semaphore are its size minus
\* those calls, so a call in its backoff sleep (or waiting, or returned)
\* holds none, and when no attempt is in flight every slot is free,
\* whatever attempts have failed before.
C39_GateOnlyInFlight ==
    \A s \in 1..Len(sems) :
        sems[s].value = HttpConcurrency - Cardinality(HoldersOf(s))

\* A call sleeps in its backoff after a failed attempt while the other call,
\* under the same semaphore, has its HTTP call in flight.
C39_Witness ==
    \E p \in Pairs : \E q \in Pairs :
        /\ qpc[p] = "backoff" /\ qsent[p] >= 1
        /\ qpc[q] = "inflight"
        /\ qgate[p] = qgate[q]
        /\ sems[qgate[q]].value = HttpConcurrency - 1

(***************************************************************************)
(* Properties of sink and the index                                        *)
(***************************************************************************)
\* C12: _update_index(key) with the key already in the index writes nothing
\* and leaves the index as it is: registering a key a second time gives the
\* index of registering it once.
C12_Idempotent ==
    [][\A i \in Slots :
          (IndexGet(i) /\ ikey[i] \in IndexKeys) =>
              (index' = index /\ ipc'[i] = "idle" /\ returned' = returned + 1)]_vars

\* _update_index(key) is called while the index already lists the key.
C12_Witness ==
    \E i \in Slots : ipc[i] = "idxget" /\ index.exists /\ ikey[i] \in IndexKeys

\* C13: _update_index is not atomic: the put writes the copy of the index
\* read earlier plus the writer's own key, whatever the index holds by then,
\* so that two writers registering different keys can both read the same
\* stale index and the later put drops the key of the earlier one.
C13_StaleOverwrite ==
    [][\A i \in Slots :
          IndexPut(i) =>
              (index'.exists /\ Range(index'.body) = iidx[i] \cup {ikey[i]})]_vars

\* Two sink invocations, each the first writer of its own shard, have both
\* returned, and the index lists only one of the two keys.
C13_Witness ==
    /\ sinks = 2 /\ returned = 2
    /\ \E k1 \in ShardKeySet : \E k2 \in ShardKeySet :
          /\ k1 # k2
          /\ bucket[k1].exists /\ bucket[k2].exists
          /\ IndexKeys = {k1}

\* C14: a shard key missing from the index is healed by the next writer's
\* update: when a sink invocation that updates the index returns, every key
\* that had a shard but no index entry (and no registration in progress) when
\* the invocation began is in the index.
C14_SelfHeals ==
    [][\A i \in Slots :
          (ipc[i] \in {"idxget", "idxput"} /\ returned' = returned + 1) =>
              \A k \in ilost[i] : index'.exists /\ k \in Range(index'.body)]_vars

\* C20: sink writes to the key of window(block) and the wallet's identity for
\* every explicitly given block >= 0, uses the chain's current block only
\* when block is unspecified, and writes nothing for an empty results list.
C20_KeyOfBlock ==
    [][\A i \in Slots : \A hk \in Wallets : \A n \in ResultCounts : \A b \in BlockArgs :
          StartSink(i, hk, n, b) =>
              IF n = 0
              THEN ipc'[i] = "idle" /\ bucket' = bucket /\ index' = index
              ELSE ikey'[i] = ShardKey(Window(IF b = NoBlock THEN chain ELSE b), hk)]_vars

\* The Results of invocation c are in the body.
HasCall(body, c) == \E j \in 1..Len(body) : body[j].call = c

\* The payloads of the invocations in S for hotkey hk, one after the other in
\* the order of the invocations.
RECURSIVE Sunk(_, _)
Sunk(hk, S) ==
    IF S = {} THEN <<>>
    ELSE LET c == CHOOSE x \in S : \A y \in S : x <= y
         IN  Payload(hk, c, 2) \o Sunk(hk, S \ {c})

\* C21: as long as the invocations for one key never overlap, every put of a
\* shard leaves it equal to its contents before followed by the new Results in
\* input order, and the shard holds the Results of every invocation that wrote
\* it, in the order of the invocations, each once.
C21_SerializedAppend ==
    /\ [][\A i \in Slots :
             (SinkPut(i) /\ ~iraced[ikey[i]]) =>
                bucket'[ikey[i]].body = bucket[ikey[i]].body \o ipayload[i]]_vars
    /\ [](\A k \in ShardKeySet :
             ~iraced[k] => bucket[k].body = Sunk(k.hotkey, isunk[k]))

\* Three invocations in a row have written one shard.
C21_Witness ==
    \E k \in ShardKeySet :
        /\ ~iraced[k]
        /\ Cardinality(isunk[k]) = 3
        /\ Len(bucket[k].body) = 6

\* The invocation in slot i returns, by either way out of sink.
SinkReturns(i) == ipc[i] # "idle" /\ ipc'[i] = "idle" /\ returned' = returned + 1

\* C22: sink turns to the index exactly when its get_object found no shard;
\* the index is read and written only after the shard has been written; an
\* invocation that returns from the index update leaves its key in the index;
\* an invocation that appended to a shard with contents returns after its put
\* and the index is not written.
C22_RegistersFirstWrite ==
    /\ [](\A i \in Slots : ipc[i] \in {"idxget", "idxput"} =>
             /\ bucket[ikey[i]].exists
             /\ CallOf(i) \in isunk[ikey[i]]
             /\ imerged[i] = ipayload[i])
    /\ [][\A i \in Slots : SinkPut(i) =>
             IF imerged[i] = ipayload[i]
             THEN ipc'[i] = "idxget" /\ index' = index
             ELSE SinkReturns(i) /\ index' = index]_vars
    /\ [][\A i \in Slots :
             (ipc[i] \in {"idxget", "idxput"} /\ SinkReturns(i)) =>
                ikey[i] \in Range(index'.body)]_vars
    /\ [][index' # index =>
             \E i \in Slots : ipc[i] = "idxput" /\ imerged[i] = ipayload[i]]_vars

\* A first write has registered its key and a later invocation has appended
\* to the shard.
C22_Witness ==
    \E k \in ShardKeySet :
        /\ isunk[k] = {1, 2}
        /\ Len(bucket[k].body) = 4
        /\ index = Object(<<k>>)
        /\ returned = 2

\* C23: the put of an invocation that read the shard before another
\* invocation wrote it overwrites that write: the shard then lacks the Results
\* of the other invocation.
C23_LaterPutOverwrites ==
    [][\A i \in Slots : \A c \in 1..MaxSinks :
          (SinkPut(i) /\ c \in isunk[ikey[i]] /\ ~HasCall(imerged[i], c)) =>
             ~HasCall(bucket'[ikey[i]].body, c)]_vars

\* After a first invocation, two invocations for the same key have both read
\* the shard before either wrote it; all have written and returned, and the
\* shard holds the Results of only one of the two.
C23_Witness ==
    \E k \in ShardKeySet :
        /\ isunk[k] = {1, 2, 3}
        /\ returned = 3
        /\ bucket[k].body = Payload(k.hotkey, 1, 2) \o Payload(k.hotkey, 3, 2)

\* C24: a step changes a shard only if it is the put of an invocation whose
\* key is that shard's and whose Results are signed by the identity the key
\* names; whatever the invocations for other keys do, a shard whose own
\* invocations never overlapped holds all their Results.
C24_OwnShardOnly ==
    /\ [][\A k \in ShardKeySet : bucket'[k] # bucket[k] =>
             \E i \in Slots :
                /\ SinkPut(i)
                /\ ikey[i] = k
                /\ \A j \in 1..Len(ipayload[i]) : ipayload[i][j].signer = k.hotkey]_vars
    /\ [](\A k \in ShardKeySet :
             ~iraced[k] => \A c \in isunk[k] : HasCall(bucket[k].body, c))

\* Two validators have written their shards of the same window while both
\* were in progress.
C24_Witness ==
    \E k1, k2 \in ShardKeySet :
        /\ k1.window = k2.window
        /\ k1.hotkey # k2.hotkey
        /\ bucket[k1].exists /\ bucket[k2].exists
        /\ \E i, j \in Slots : ikey[i] = k1 /\ ikey[j] = k2
                                /\ ipc[i] = "idxget" /\ ipc[j] = "idxget"

\* C36: every key the index lists is the key of a shard object that exists,
\* and so is every key an invocation of _update_index is about to write to
\* the index, whatever the interleaving of the invocations.
C36_IndexedShardsExist ==
    /\ \A k \in IndexKeys : bucket[k].exists
    /\ \A i \in Slots : ipc[i] = "idxput" =>
          \A k \in iidx[i] \cup {ikey[i]} : bucket[k].exists

\* The index lists a key and another shard exists that it does not list:
\* invocations that wrote the index concurrently have lost a registration.
C36_Witness ==
    /\ IndexKeys # {}
    /\ \A i \in Slots : ipc[i] = "idle"
    /\ \E k \in ShardKeySet : bucket[k].exists /\ k \notin IndexKeys /\ ~Registering(k)

(***************************************************************************)
(* Properties of run                                                       *)
(***************************************************************************)
\* The tasks of the pair (miner m, challenge c).
TasksOf(m, c) == { t \in 1..Len(rtasks) : rtasks[t].miner = m /\ rtasks[t].chal = c }

NoneFailed == \A t \in 1..Len(rtasks) : rtasks[t].pc # "failed"

\* C17: run creates exactly one task for every pair of a challenge and a
\* miner that has a model, and no task for a miner without a model; when no
\* task fails, the list it returns holds exactly one Result per such pair,
\* and the Result carries the miner and the challenge of its pair.
C17_OneResultPerPair ==
    rphase # "idle" =>
        /\ \A m \in Uids : \A c \in 1..rn :
              Cardinality(TasksOf(m, c)) = (IF rmodel[m] THEN 1 ELSE 0)
        /\ \A t \in 1..Len(rtasks) : rtasks[t].miner \in Uids /\ rtasks[t].chal \in 1..rn
        /\ (rphase = "returned" /\ NoneFailed) =>
              \A m \in Uids : \A c \in 1..rn :
                 Cardinality({ j \in 1..Len(rresponse) :
                                 rresponse[j].miner = m /\ rresponse[j].chal = c })
                    = (IF rmodel[m] THEN 1 ELSE 0)

\* run has returned the Results of two challenges for a miner with a model
\* and none for the miner without.
C17_Witness ==
    /\ rphase = "returned"
    /\ NoneFailed
    /\ rn = 2
    /\ \E m \in Uids : rmodel[m]
    /\ \E m \in Uids : ~rmodel[m]
    /\ Len(rresponse) = 2

\* C18: when evaluate raises for a pair, the task of the pair still ends with
\* a Result whose score is 0 and which carries the error, the other tasks are
\* left as they are, and run returns that Result.
C18_EvaluationErrorScoresZero ==
    /\ [][\A t \in 1..Len(rtasks) : EvaluateRaises(t) =>
             /\ rtasks'[t].pc = "done"
             /\ rtasks'[t].ev.score = 0
             /\ rtasks'[t].ev.error
             /\ rtasks'[t].miner = rtasks[t].miner
             /\ rtasks'[t].chal = rtasks[t].chal
             /\ \A u \in 1..Len(rtasks) : u # t => rtasks'[u] = rtasks[u]]_vars
    /\ [](rphase = "returned" =>
             \A t \in 1..Len(rtasks) : rtasks[t].pc = "done" =>
                \E j \in 1..Len(rresponse) : rresponse[j] = ResultOf(rtasks[t]))

\* run has returned a Result of a failed evaluation next to a scored one.
C18_Witness ==
    /\ rphase = "returned"
    /\ \E j, k \in 1..Len(rresponse) :
          /\ rresponse[j].ev = Substituted
          /\ rresponse[k].ev = Scored(1)

\* The positions of the tasks that did not fail.
Succeeded == { t \in 1..Len(rtasks) : rtasks[t].pc # "failed" }

\* C19: run does not raise when a task fails; it returns only when every task
\* has ended, and the list it returns holds the Results of the tasks that did
\* not fail, in the order in which the tasks were created, and nothing else.
C19_FailedPairsExcluded ==
    /\ rphase # "raised"
    /\ rphase = "returned" =>
          /\ \A t \in 1..Len(rtasks) : rtasks[t].pc \in {"done", "failed"}
          /\ Len(rresponse) = Cardinality(Succeeded)
          /\ \A t \in Succeeded :
                rresponse[Cardinality({ u \in Succeeded : u <= t })] = ResultOf(rtasks[t])
          /\ \A j \in 1..Len(rresponse) :
                \A k \in 1..Len(rresponse) : j < k =>
                   \E t, u \in Succeeded :
                      /\ t < u
                      /\ rresponse[j] = ResultOf(rtasks[t])
                      /\ rresponse[k] = ResultOf(rtasks[u])

\* run has returned after a task between two others failed.
C19_Witness ==
    /\ rphase = "returned"
    /\ Len(rtasks) = 4
    /\ rtasks[2].pc = "failed"
    /\ rtasks[1].pc = "done" /\ rtasks[3].pc = "done" /\ rtasks[4].pc = "failed"
    /\ Len(rresponse) = 2

(***************************************************************************)
(* Properties of _shard_keys                                               *)
(***************************************************************************)
\* The window part of a key is a number written in decimal digits.
Numeric(h) == h # <<>> /\ \A i \in 1..Len(h) : h[i] \in DecimalChars

\* window(cur - tail), window(cur - tail) + W, ..., window(cur)
WindowStartsFor(cur, tail) ==
    { Window(cur - tail) + j * WINDOW : j \in 0..((Window(cur) - Window(cur - tail)) \div WINDOW) }

\* The key is one _shard_keys has to return.
Wanted(k, cur, tail) == Numeric(k.prefix) /\ IntOf(k.prefix) \in WindowStartsFor(cur, tail)

\* How often k occurs in the list.
Count(l, k) == Cardinality({ i \in 1..Len(l) : l[i] = k })

\* The list is in ascending order.
AscendingKeys(l) == \A i \in 1..Len(l) : \A j \in 1..Len(l) : i < j => ~IndexKeyBefore(l[j], l[i])

\* C25: _shard_keys returns exactly the keys of the index whose numeric
\* window part is a window start between window(cur - tail) and window(cur),
\* in ascending order; every other key is left out.
C25_ExactWindowKeys ==
    kpc = "done" =>
        /\ ~kout.raised
        /\ \A k \in IndexKeySet :
              Count(kout.keys, k) = (IF Wanted(k, kcur, ktail) THEN Count(kidx, k) ELSE 0)
        /\ AscendingKeys(kout.keys)

\* The same, for an index none of whose keys has a digit that is not decimal.
C25_DecimalKeys ==
    (kpc = "done" /\ \A i \in 1..Len(kidx) : \A j \in 1..Len(kidx[i].prefix) :
                        kidx[i].prefix[j] # "sup2") =>
        /\ ~kout.raised
        /\ \A k \in IndexKeySet :
              Count(kout.keys, k) = (IF Wanted(k, kcur, ktail) THEN Count(kidx, k) ELSE 0)
        /\ AscendingKeys(kout.keys)

(***************************************************************************)
(* Properties of the challenge id                                          *)
(***************************************************************************)
\* The two constructions are of the same (env, prompt, extra).
SameTriple ==
    /\ cargs[1].env.name = cargs[2].env.name
    /\ cargs[1].prompt = cargs[2].prompt
    /\ SameDict(cargs[1].extra, cargs[2].extra)

BothConstructed == cid[1] # Unset /\ cid[2] # Unset

\* C26: two Challenges constructed from the same (env, prompt, extra) without
\* an id get the same challenge_id, whatever the insertion order of extra and
\* whether env is given by name or as an object; an id that comes with the
\* input is kept.
C26_IdIsFunction ==
    /\ (BothConstructed /\ SameTriple /\ cargs[1].challenge_id = NoId
          /\ cargs[2].challenge_id = NoId) => cid[1] = cid[2]
    /\ \A n \in 1..2 :
          (cid[n] # Unset /\ cargs[n].challenge_id # NoId) => cid[n] = cargs[n].challenge_id

\* Two Challenges have been constructed from one triple whose extra was
\* filled in two different orders.
C26_Witness ==
    /\ BothConstructed
    /\ SameTriple
    /\ cargs[1].extra # cargs[2].extra
    /\ cargs[1].env.form # cargs[2].env.form
    /\ cid[1] = cid[2]
    /\ cid[1] # GivenId

(***************************************************************************)
(* Properties of sign and verify                                           *)
(***************************************************************************)
Signed == gsigned.hotkey # ""

\* C27, as the claim states it: verify() is true for a Result as sign left
\* it, and is not true once the signature field or the signer field differs
\* from what sign wrote.
C27_AlteredNeverVerifies ==
    (Signed /\ gverdict # "none") =>
        /\ (gres = gsigned) => gverdict = "true"
        /\ (gres.signature # gsigned.signature \/ gres.hotkey # gsigned.hotkey)
              => gverdict # "true"

\* C27, amended: verify() is true for a Result as sign left it, and is not
\* true once the signer differs or the signature no longer decodes to the
\* bytes sign produced.
C27_SignThenVerify ==
    (Signed /\ gverdict # "none") =>
        /\ (gres = gsigned) => gverdict = "true"
        /\ ( \/ gres.hotkey # gsigned.hotkey
             \/ FromHexRaises(gres.signature)
             \/ FromHex(gres.signature) # FromHex(gsigned.signature) )
              => gverdict # "true"

\* verify() has answered false for a signature by another identity, with the
\* signature itself untouched.
C27_Witness ==
    /\ Signed
    /\ gverdict = "false"
    /\ gres.hotkey # gsigned.hotkey
    /\ gres.signature = gsigned.signature

\* verify() has answered true for a Result whose signature was re-written in
\* upper case.
C27_Recased ==
    /\ Signed
    /\ gverdict = "true"
    /\ gres.signature.text = "upper"

\* C28: a Result that has the signer and the signature sign left and a
\* Challenge with the same string form verifies, whatever its Response,
\* Evaluation and Miner are, and whatever of the Challenge the string form
\* does not show; in general the outcome of verify() is a function of the
\* signer, the signature and the string form of the Challenge.
C28_EnvelopeOnly ==
    /\ (Signed /\ gverdict # "none") =>
          gverdict = Verify([gsigned EXCEPT !.hotkey = gres.hotkey,
                                            !.signature = gres.signature,
                                            !.challenge = gres.challenge])
    /\ (Signed /\ gverdict # "none" /\ gres.hotkey = gsigned.hotkey
          /\ gres.signature = gsigned.signature
          /\ Repr(gres.challenge) = Repr(gsigned.challenge)) => gverdict = "true"

\* verify() has answered true for a signed Result whose scoring data were
\* replaced afterwards.
C28_Witness ==
    /\ Signed
    /\ gverdict = "true"
    /\ gres.scoring # gsigned.scoring
    /\ gres.challenge = gsigned.challenge

(***************************************************************************)
(* Properties of the watchdog and of the loops                             *)
(***************************************************************************)
\* C29: at a check of the watchdog the process exits if the heartbeat is
\* older than the timeout, and goes on if it is not; nothing else ends the
\* process.  This is so under runner and under validate, whether the
\* iterations of the loop succeed or fail.
C29_WatchdogExits ==
    /\ [][WatchdogCheck => (alive' = FALSE <=> now - heartbeat > WatchdogTimeout)]_vars
    /\ [][alive' # alive => WatchdogCheck]_vars

\* The runner never got a connection, every iteration failed, and the
\* watchdog has ended the process.
C29_Witness ==
    /\ ~alive
    /\ lmode = "runner"
    /\ gsub = NoConn
    /\ lpc = "cooldown"

\* The same under validate: the loop hangs in a call and the process ends.
C29_ValidateStalls == ~alive /\ lmode = "validate"

\* Under validate the heartbeat is refreshed at the top of every iteration,
\* failed or not.
C29_ValidateRefreshes == [][(LoopTop /\ lmode = "validate") => heartbeat' = now]_vars

\* C30: a failed iteration drops the connection and is retried after the
\* cooldown, and the connection the next iteration gets from get_subtensor()
\* is not the one in use when the iteration failed.
C30_FreshConnection ==
    /\ [][LoopFails => (lsub' = NoConn /\ lpc' = "cooldown" /\ lwake' = now + Cooldown)]_vars
    /\ [][(Connect /\ lfailed # NoConn) => lsub' # lfailed]_vars

\* The first part alone: the local connection is dropped, the loop sleeps and
\* goes back to the top.
C30_RetriesAfterCooldown ==
    /\ [][LoopFails => (lsub' = NoConn /\ lpc' = "cooldown" /\ lwake' = now + Cooldown)]_vars
    /\ [][CooldownDone => (now >= lwake /\ lpc' = "top")]_vars

\* SUBTENSOR, once set, is never reset or replaced.
C30_GlobalKept == [][gsub # NoConn => gsub' = gsub]_vars


(***************************************************************************)
(* Properties of the cache under concurrent fetches of one key             *)
(***************************************************************************)
\* The lines of a cache file that holds exactly the entries of arr, in order.
LinesOf(arr) == [j \in 1..Len(arr) |-> <<arr[j]>>]

\* C35: whenever the local file and the stamp exist and the stamp equals the
\* LastModified of the remote shard, the lines of the local file are the
\* entries of the remote shard array, in order.
C35_Coherent ==
    (hfile.exists /\ hstamp # NoStamp /\ hstamp = hremote.lm)
        => FileLines(hfile.bytes) = LinesOf(hremote.body)

\* The coherence holds as long as no process died between os.replace and
\* stamp.write_text.
C35_CoherentUntilCrash ==
    ~hcrashed => C35_Coherent

\* out never holds partially written content: it is absent or the whole
\* re-encoding of an array the remote shard has held.
C35_NeverPartial ==
    hfile.exists => \E n \in 0..hover : hfile.bytes = ToJsonl(BodyAt(n))

\* A probe has found the stamp equal to the remote LastModified and the copy
\* it is about to return is not the remote array.
C35_StaleReturn ==
    \E f \in Fetchers :
        hpc[f] = "ret" /\ hremote.lm = hstamp /\ FileLines(hfile.bytes) # LinesOf(hremote.body)

(***************************************************************************)
(* Properties of prune                                                     *)
(***************************************************************************)
\* The cache files there were when prune was called.
CachedBefore == pcache \cup pdeleted

\* The keys _shard_keys(tail) returned.
Resolved == Range(pkeys.keys)

\* C32: for one current block, prune(tail) unlinks no cache file of a shard
\* whose key _shard_keys(tail) returns, it unlinks every cache file whose
\* window lies before the windows _shard_keys(tail) asks for, and it leaves
\* the objects of the bucket as they are.
C32_PruneOutsideWindow ==
    (ppc = "done" /\ ~pkeys.raised) =>
        /\ \A k \in Resolved : k \notin pdeleted
        /\ \A k \in CachedBefore :
              (\A w \in Need(pcur, ptail) : IntOf(k.prefix) < w) => k \in pdeleted
        /\ premote = Range(pidx) \cup NumericKeys

\* prune unlinks every cache file whose window lies before the windows asked
\* for, keeps every file whose window starts at cur - tail or later, and
\* leaves the bucket as it is.
C32_EvictsOld ==
    ppc # "call" =>
        /\ \A k \in CachedBefore :
              /\ (\A w \in Need(pcur, ptail) : IntOf(k.prefix) < w) => k \in pdeleted
              /\ IntOf(k.prefix) >= pcur - ptail => k \in pcache
        /\ premote = Range(pidx) \cup NumericKeys

\* prune has unlinked the cache file of a key that _shard_keys then returned:
\* the shard of the window cur - tail falls in, which starts before cur - tail.
C32_EvictedInsideWindow ==
    /\ ppc = "done"
    /\ \E k \in Resolved :
          /\ k \in pdeleted
          /\ IntOf(k.prefix) = Window(pcur - ptail)
          /\ IntOf(k.prefix) < pcur - ptail
=============================================================================
